---- MODULE Spec2Model ----
(***************************************************************************)
(* Model of the per-connection lifecycle of matrix-websockets-proxy:       *)
(* serveStream (initial /sync, upgrade, New, SendMessage, Start) and the   *)
(* goroutines of proxy.Connection (writePump, syncPump, reader and one     *)
(* handleMessage goroutine per inbound message), which share the buffered  *)
(* channel 'send' and the channel 'quit'; and of what the connection calls: *)
(* MatrixClient (Sync, do, extractNextBatch) with the upstream server's     *)
(* answers as inputs.                                                      *)
(***************************************************************************)
EXTENDS Integers, Sequences, FiniteSets, TLC

\* Capacity of the 'send' channel, scaled down from make(chan message, 256).
QueueCap == 2
\* Number of /sync calls the sync pump may complete successfully.
MaxPolls == 1
\* Number of inbound messages the reader may receive.
MaxCmds == 2
\* Number of ticks of the ping ticker.
MaxPings == 1
\* The seconds a timed run lasts, and the longest a pong takes to come back.
MaxTime == 120
MaxPongDelay == 7

\* websocket.CloseInternalServerErr, the close code used by syncPump.
CloseInternalServerErr == 1011

\* syncTimeout (60 * time.Second) in milliseconds, the unit of 'timeout'.
syncTimeout == 60000
\* The only status MatrixClient.do takes as success.
StatusOK == 200
\* http.StatusInternalServerError
StatusInternalServerError == 500
\* The status SendTyping takes as rate-limiting.
StatusTooManyRequests == 429
\* The length syncPump trims the error string to.
errmsgLimit == 100
\* The longest payload of a websocket control frame.
maxControlFramePayloadSize == 125
\* goroutineCount, the capacity of MatrixConnection.closeChan.
goroutineCount == 4
\* pongWait (60 * time.Second), in seconds.
pongWait == 60
\* pingPeriod, in seconds.
pingPeriod == (pongWait * 9) \div 10

VARIABLES
    servePc,     \* position of serveStream
    readerPc,    \* position of Connection.reader
    writerPc,    \* position of Connection.writePump
    pumpPc,      \* position of Connection.syncPump
    handlers,    \* position of each handleMessage goroutine
    send,        \* contents of the channel c.send
    quit,        \* TRUE once the channel c.quit is closed
    quitCloses,  \* number of close(c.quit) calls executed
    wsClosed,    \* TRUE once c.ws.Close() has been called
    wire,        \* data and close frames written to the websocket, in order,
                 \* each with the flow that wrote it
    pingFrames,  \* ping frames written to the websocket, each with its writer
    enqueued,    \* every message sent on c.send, in order of the channel sends
    dequeued,    \* number of messages received from c.send
    polls,       \* number of successful Sync(true) calls of the sync pump
                 \* (of MatrixConnection's pump: of all its MakeRequest calls)
    pings,       \* number of ticks delivered by the ping ticker
    cmds,        \* number of messages returned by ReadMessage
    writeErr,    \* TRUE once c.write returned an error
    syncErr,     \* TRUE once Sync(true) returned an error in the sync pump
    readErr,     \* the kind of error ReadMessage returned, "none" before
    NextSyncBatch, \* MatrixClient.NextSyncBatch, "" while there is no cursor
    errmsg,        \* syncPump's errmsg, the reason of its close message
    Filter,        \* MatrixClient.Filter
    lastSync,      \* the last call of MatrixClient.Sync: its number, what it
                   \* sent, what upstream answered and what it returned (n
                   \* is 0 before the first call)
    httpResponse,  \* the HTTP response written by serveStream
    UserId,        \* MatrixClient.UserId, "" until whoami has answered
    userIdStores,  \* number of times GetUserId has assigned s.UserId
    handling,      \* the handleMessage call that has not returned: its
                   \* handler, the request, the upstream calls made for it
                   \* and the response of handleRequest (h is 0 when none)
    aborted,       \* TRUE once an unrecovered panic has ended the process
    AccessToken,   \* MatrixClient.AccessToken, from the request to /stream
    logged,        \* the set of lines last written to the log that print a
                   \* URL or an error, by serveStream, MatrixClient or
                   \* syncPump
    doCall,        \* a call of MatrixClient.do taken on its own: the answer
                   \* of upstream and, once returned, the body and the error
    now,           \* the time in seconds since Start
    readDeadline,  \* the websocket's read deadline, in seconds since Start
    tickAt,        \* when the writer's ping ticker fires next
    tick,          \* TRUE while a tick waits in the ticker's channel
    pongs,         \* for each ping written: when it was written, when its
                   \* pong reaches the reader, and whether it has
    closeChan,     \* MatrixConnection.closeChan: the number of values in it
    closerPc       \* position of MatrixConnection.closer

connVars == <<servePc, readerPc, writerPc, pumpPc, handlers, send, quit,
              quitCloses, wsClosed, wire, pingFrames, enqueued, dequeued,
              polls, pings, cmds, writeErr, syncErr, readErr>>
syncVars == <<NextSyncBatch, Filter, lastSync, httpResponse, errmsg>>
cmdVars == <<UserId, handling, aborted, userIdStores>>
logVars == <<AccessToken, logged>>
clientVars == <<syncVars, cmdVars, logVars, doCall>>
timeVars == <<now, readDeadline, tickAt, tick, pongs>>
closerVars == <<closeChan, closerPc>>
sideVars == <<timeVars, closerVars>>

vars == <<connVars, clientVars, sideVars>>

pcVars == <<servePc, readerPc, writerPc, pumpPc, handlers>>
chanVars == <<send, enqueued, wire>>
quitVars == <<quit, quitCloses>>
wsVars == <<wsClosed, pingFrames>>
countVars == <<polls, pings, cmds>>
errVars == <<writeErr, syncErr, readErr>>

Handlers == 1..MaxCmds

\* The errors ReadMessage can return, as reader's type switch tells them
\* apart: a *websocket.CloseError (close frame received from the peer), or
\* any other error (read deadline expired, transport error).
ReadErrors == {"CloseError", "other"}

\* type message struct: the frame type and the body. A body is identified by
\* the flow that produced it (src) and that flow's running number (n); code
\* is the close code of a close message and 0 otherwise.
message(messageType, src, n, code) ==
    [type |-> messageType, src |-> src, n |-> n, code |-> code]

\* A frame on the websocket: the message and the flow that called WriteMessage.
frame(by, m) ==
    [by |-> by, type |-> m.type, src |-> m.src, n |-> m.n, code |-> m.code]

\* The message a frame carries.
frameMessage(f) == message(f.type, f.src, f.n, f.code)

----------------------------------------------------------------------------
(* MatrixClient: the upstream call and its classification *)

\* The bodies the upstream server answers with, as sent.
SyncBodies ==
    {"{'next_batch':'s1'}", "{'next_batch':'s2'}", "{}",
     "{'errcode':'M_FORBIDDEN','error':'denied'}", "<html>busy</html>"}

\* Error pages of 100, 101 and 130 characters.
tenChars == "<p>busy</p"
page100 ==
    tenChars \o tenChars \o tenChars \o tenChars \o tenChars \o tenChars
        \o tenChars \o tenChars \o tenChars \o tenChars
page101 == page100 \o ">"
page130 == page100 \o tenChars \o tenChars \o tenChars
LongBodies == {page100, page101, page130}

\* The members the code reads from a JSON body.
emptyDoc ==
    [ok |-> TRUE, next_batch |-> "", errcode |-> "", error |-> "",
     user_id |-> "", event_id |-> ""]

\* json.Unmarshal of a body into a struct: ok is FALSE when the body is not
\* a JSON object, and a member the body lacks is left at "".
Unmarshal(b) ==
    CASE b = "{'next_batch':'s1'}" -> [emptyDoc EXCEPT !.next_batch = "s1"]
      [] b = "{'next_batch':'s2'}" -> [emptyDoc EXCEPT !.next_batch = "s2"]
      [] b = "{}" -> emptyDoc
      [] b = "{'errcode':'M_FORBIDDEN','error':'denied'}" ->
            [emptyDoc EXCEPT !.errcode = "M_FORBIDDEN", !.error = "denied"]
      [] b = "{'errcode':'M_LIMIT_EXCEEDED','error':'slow down'}" ->
            [emptyDoc EXCEPT !.errcode = "M_LIMIT_EXCEEDED",
                             !.error = "slow down"]
      [] b = "{'event_id':'$e'}" -> [emptyDoc EXCEPT !.event_id = "$e"]
      [] b = "{'event_id':'$f'}" -> [emptyDoc EXCEPT !.event_id = "$f"]
      [] b = "{'user_id':'@u:hs'}" -> [emptyDoc EXCEPT !.user_id = "@u:hs"]
      [] OTHER -> [emptyDoc EXCEPT !.ok = FALSE]

\* What the upstream server does with a request: httpClient.Do fails and
\* there is no response, or the response arrives but its body cannot be
\* read, or a response arrives with a status, a Content-Type and a body.
noResponse ==
    [kind |-> "noResponse", status |-> 0, contentType |-> "", body |-> ""]
unreadable(status, contentType) ==
    [kind |-> "unreadable", status |-> status, contentType |-> contentType,
     body |-> ""]
response(status, contentType, b) ==
    [kind |-> "response", status |-> status, contentType |-> contentType,
     body |-> b]

\* The answers /sync is given in the model.
SyncAnswers ==
    {noResponse, unreadable(StatusOK, "application/json")}
        \cup {response(st, ct, b) :
                st \in {StatusOK, StatusInternalServerError},
                ct \in {"application/json", "text/html"},
                b \in SyncBodies}
        \cup {response(StatusInternalServerError, "text/html", b) :
                b \in LongBodies}

\* The error values: nil, the *url.Error of httpClient.Do, an error made by
\* fmt.Errorf or json.Unmarshal, *HttpError and *MatrixError.
goError(type, msg, status, contentType, b, details) ==
    [type |-> type, msg |-> msg, StatusCode |-> status,
     ContentType |-> contentType, Body |-> b, Details |-> details]
noDetails == [ErrCode |-> "", Error |-> ""]
nil == goError("nil", "", 0, "", "", noDetails)
errorf(msg) == goError("error", msg, 0, "", "", noDetails)
\* The error of a failed dial, and the *url.Error httpClient.Do wraps it
\* in: its text is the operation, the URL and the text of the inner error
\* (path and token of the URL are not spelled out in the text).
dialError == errorf("dial tcp 127.0.0.1:8008: connect: connection refused")
urlError ==
    goError("url.Error",
            "Get http://localhost:8008/<path>?access_token=<token>: "
                \o dialError.msg,
            0, "", "", noDetails)
\* HttpError.Error() is the body.
HttpError(status, contentType, b) ==
    goError("HttpError", b, status, contentType, b, noDetails)
\* MatrixError.Error() is "errcode (error)".
MatrixError(status, contentType, b) ==
    goError("MatrixError",
            Unmarshal(b).errcode \o " (" \o Unmarshal(b).error \o ")",
            status, contentType, b,
            [ErrCode |-> Unmarshal(b).errcode, Error |-> Unmarshal(b).error])

\* do taking every 2xx status for a success.
do_2xx(up) ==
    IF up.kind = "noResponse"
    THEN [body |-> "", err |-> urlError]
    ELSE IF up.kind = "unreadable"
    THEN [body |-> "", err |-> errorf("error reading request error response")]
    ELSE IF up.status >= 200 /\ up.status < 300
    THEN [body |-> up.body, err |-> nil]
    ELSE IF up.contentType = "application/json" /\ Unmarshal(up.body).ok
    THEN [body |-> "",
          err |-> MatrixError(up.status, up.contentType, up.body)]
    ELSE [body |-> "", err |-> HttpError(up.status, up.contentType, up.body)]

\* MatrixClient.do: the body of a 200 response, or the error.
do(up) ==
    IF up.kind = "noResponse"
    THEN [body |-> "", err |-> urlError]
    ELSE IF up.kind = "unreadable"
    THEN [body |-> "", err |-> errorf("error reading request error response")]
    ELSE IF up.status = StatusOK
    THEN [body |-> up.body, err |-> nil]
    ELSE IF up.contentType = "application/json" /\ Unmarshal(up.body).ok
    THEN [body |-> "",
          err |-> MatrixError(up.status, up.contentType, up.body)]
    ELSE [body |-> "", err |-> HttpError(up.status, up.contentType, up.body)]

\* extractNextBatch accepting a body without next_batch.
extractNextBatch_lenient(httpBody) ==
    IF ~Unmarshal(httpBody).ok
    THEN [next_batch |-> "", err |-> errorf("invalid character")]
    ELSE [next_batch |-> Unmarshal(httpBody).next_batch, err |-> nil]
\* extractNextBatch
extractNextBatch(httpBody) ==
    IF ~Unmarshal(httpBody).ok
    THEN [next_batch |-> "", err |-> errorf("invalid character")]
    ELSE IF Unmarshal(httpBody).next_batch = ""
    THEN [next_batch |-> "",
          err |-> errorf("/sync response missing next_batch")]
    ELSE [next_batch |-> Unmarshal(httpBody).next_batch, err |-> nil]

\* The query parameters of a /sync request that never waits for events.
syncParams_immediate(waitForEvents) ==
    [k \in {"access_token", "timeout"}
            \cup (IF NextSyncBatch # "" THEN {"since"} ELSE {})
            \cup (IF Filter # "" THEN {"filter"} ELSE {}) |->
        CASE k = "access_token" -> "AccessToken"
          [] k = "timeout" -> 0
          [] k = "since" -> NextSyncBatch
          [] k = "filter" -> Filter]

\* The query parameters of a /sync request: 'since' and 'filter' are set
\* only when not empty.
syncParams(waitForEvents) ==
    [k \in {"access_token", "timeout"}
            \cup (IF NextSyncBatch # "" THEN {"since"} ELSE {})
            \cup (IF Filter # "" THEN {"filter"} ELSE {}) |->
        CASE k = "access_token" -> "AccessToken"
          [] k = "timeout" -> IF waitForEvents THEN syncTimeout ELSE 0
          [] k = "since" -> NextSyncBatch
          [] k = "filter" -> Filter]

\* MatrixClient.Sync storing whatever next_batch the answer carries, before
\* looking at the error.
Sync_eager(waitForEvents, up) ==
    [params |-> syncParams(waitForEvents),
     body |-> IF do(up).err = nil /\ extractNextBatch(do(up).body).err = nil
                 THEN do(up).body ELSE "",
     err |-> IF do(up).err # nil
                THEN do(up).err ELSE extractNextBatch(do(up).body).err,
     NextSyncBatch |-> Unmarshal(up.body).next_batch]
\* MatrixClient.Sync: the parameters sent, the body and error returned, and
\* the value NextSyncBatch has afterwards.
Sync(waitForEvents, up) ==
    LET r == do(up)
        nb == extractNextBatch(r.body)
    IN  IF r.err # nil
        THEN [params |-> syncParams(waitForEvents), body |-> "",
              err |-> r.err, NextSyncBatch |-> NextSyncBatch]
        ELSE IF nb.err # nil
        THEN [params |-> syncParams(waitForEvents), body |-> "",
              err |-> nb.err, NextSyncBatch |-> NextSyncBatch]
        ELSE [params |-> syncParams(waitForEvents), body |-> r.body,
              err |-> nil, NextSyncBatch |-> nb.next_batch]

\* A URL: its path and its access_token parameter.
URL(path) == [path |-> path, access_token |-> AccessToken]

\* accessTokenRegexp.ReplaceAllString(url, "$1<redacted>"): the pattern
\* needs a value of at least one character.
redactedUrl(url) ==
    IF url.access_token = ""
    THEN url
    ELSE [url EXCEPT !.access_token = "<redacted>"]

\* A line of the log: its text and the URLs printed in it.
logLine(text, urls) == [text |-> text, urls |-> urls]

\* The URLs in the text of an error: (*url.Error).Error() is the operation,
\* the URL and the text of the inner error.
errorURLs(err, url) == IF err.type = "url.Error" THEN <<url>> ELSE <<>>

\* The lines do writes for a request to path that upstream answers with up.
doLog(path, up) ==
    {logLine("Send request:", <<redactedUrl(URL(path))>>)}
        \cup (IF up.kind = "noResponse"
              THEN {logLine("HTTP error", errorURLs(do(up).err, URL(path)))}
              ELSE IF /\ up.kind = "response"
                      /\ up.status # StatusOK
                      /\ up.contentType = "application/json"
                      /\ ~Unmarshal(up.body).ok
              THEN {logLine("Unable to unmarshall json error", <<>>)}
              ELSE {})

\* The lines written for a call of Sync and, by its caller, for its error.
syncLog(text, up, err) ==
    doLog("_matrix/client/r0/sync", up)
        \cup (IF err = nil
              THEN {}
              ELSE {logLine(text,
                            errorURLs(err, URL("_matrix/client/r0/sync")))})

\* A call of Sync as it changes the client: the cursor, and the record of
\* the call.
SyncCall(waitForEvents, up) ==
    /\ NextSyncBatch' = Sync(waitForEvents, up).NextSyncBatch
    /\ lastSync' = [n |-> lastSync.n + 1,
                    wait |-> waitForEvents,
                    up |-> up,
                    params |-> Sync(waitForEvents, up).params,
                    body |-> Sync(waitForEvents, up).body,
                    err |-> Sync(waitForEvents, up).err]
    /\ UNCHANGED Filter

\* handleHttpError: the upstream status, Content-Type and body are written.
handleHttpError(errp) ==
    [written |-> TRUE, status |-> errp.StatusCode,
     contentType |-> errp.ContentType, body |-> errp.Body]

\* httpError: http.Error with the status text.
httpError(status) ==
    [written |-> TRUE, status |-> status,
     contentType |-> "text/plain; charset=utf-8",
     body |-> IF status = StatusInternalServerError
                 THEN "Internal Server Error" ELSE "Method Not Allowed"]

\* serveStream's switch on the error of the initial Sync, answering 500 to
\* every error.
serveStreamError_generic(err) == httpError(StatusInternalServerError)
\* serveStream's switch on the error of the initial Sync.
serveStreamError(err) ==
    CASE err.type = "MatrixError" -> handleHttpError(err)
      [] err.type = "HttpError" -> handleHttpError(err)
      [] OTHER -> httpError(StatusInternalServerError)

----------------------------------------------------------------------------
(* handleRequest: the requests, the handlers and MatrixClient's calls *)

\* A *string: <<>> is nil.
Ids == {<<>>, <<"1">>}

\* The params of a request as the handlers' structs hold them after
\* json.Unmarshal: ok is FALSE when that Unmarshal fails; Content is TRUE
\* when 'content' is present.
noParams ==
    [ok |-> TRUE, Room_ID |-> "", Event_Type |-> "", State_Key |-> "",
     Content |-> FALSE, Typing |-> FALSE, Timeout |-> 0, Read |-> "",
     FullyRead |-> ""]

\* jsonRequest: decodable is FALSE when json.Unmarshal of the message fails.
jsonRequest(decodable, id, method, params) ==
    [decodable |-> decodable, id |-> id, method |-> method, params |-> params]

undecodable == jsonRequest(FALSE, <<>>, "", noParams)

\* The messages a client sends in the model: undecodable, ping, an unknown
\* method, and each command with params that do not decode, with a required
\* member missing, and complete; a complete send also with a second id and a
\* complete state also with a state_key.
Requests ==
    {undecodable}
        \cup {jsonRequest(TRUE, id, m, noParams) :
                id \in Ids, m \in {"ping", "bogus"}}
        \cup {jsonRequest(TRUE, id, m, [noParams EXCEPT !.ok = FALSE]) :
                id \in Ids, m \in {"send", "state", "typing", "read_markers"}}
        \cup {jsonRequest(TRUE, id, m,
                          [noParams EXCEPT !.Room_ID = p[1],
                                           !.Event_Type = p[2],
                                           !.Content = p[3]]) :
                id \in Ids, m \in {"send", "state"},
                p \in {<<"", "m.t", TRUE>>, <<"!r", "", TRUE>>,
                       <<"!r", "m.t", FALSE>>, <<"!r", "m.t", TRUE>>}}
        \cup {jsonRequest(TRUE, <<"2">>, "send",
                          [noParams EXCEPT !.Room_ID = "!r",
                                           !.Event_Type = "m.t",
                                           !.Content = TRUE])}
        \cup {jsonRequest(TRUE, id, "state",
                          [noParams EXCEPT !.Room_ID = "!r",
                                           !.Event_Type = "m.t",
                                           !.State_Key = "k",
                                           !.Content = TRUE]) : id \in Ids}
        \cup {jsonRequest(TRUE, id, "typing",
                          [noParams EXCEPT !.Room_ID = p[1], !.Typing = p[2],
                                           !.Timeout = p[3]]) :
                id \in Ids,
                p \in {<<"", TRUE, 0>>, <<"!r", TRUE, 0>>,
                       <<"!r", TRUE, syncTimeout>>, <<"!r", FALSE, 0>>,
                       <<"!r", FALSE, syncTimeout>>}}
        \cup {jsonRequest(TRUE, id, "read_markers",
                          [noParams EXCEPT !.Room_ID = p[1], !.Read = p[2],
                                           !.FullyRead = p[3]]) :
                id \in Ids,
                p \in {<<"", "$e", "">>, <<"!r", "", "">>, <<"!r", "$e", "">>,
                       <<"!r", "", "$e">>, <<"!r", "$e", "$e">>}}

\* The answers upstream gives to the PUT or POST of a command.
CmdAnswers ==
    {noResponse,
     response(StatusOK, "application/json", "{'event_id':'$e'}"),
     response(StatusOK, "application/json", "{'event_id':'$f'}"),
     response(StatusOK, "text/html", "<html>busy</html>"),
     response(StatusTooManyRequests, "application/json",
              "{'errcode':'M_LIMIT_EXCEEDED','error':'slow down'}"),
     response(StatusTooManyRequests, "text/html", "<html>busy</html>"),
     response(StatusInternalServerError, "application/json",
              "{'errcode':'M_FORBIDDEN','error':'denied'}"),
     response(StatusInternalServerError, "application/json",
              "<html>busy</html>"),
     response(StatusInternalServerError, "text/html", "<html>busy</html>")}

\* The answers upstream gives to GET whoami.
WhoamiAnswers ==
    {noResponse,
     response(StatusOK, "application/json", "{'user_id':'@u:hs'}"),
     response(StatusOK, "application/json", "{}"),
     response(StatusOK, "text/html", "<html>busy</html>"),
     response(StatusInternalServerError, "application/json",
              "{'errcode':'M_FORBIDDEN','error':'denied'}")}

\* url.QueryEscape, on the strings of the model.
QueryEscape(str) ==
    CASE str = "!r" -> "%21r"
      [] str = "@u:hs" -> "%40u%3Ahs"
      [] OTHER -> str

\* One upstream request of a command and its answer: the MatrixClient method
\* that makes it, the arguments of do (the body as a sequence, <<>> for nil,
\* holding the JSON object sent) and what upstream does with it.
call(endpoint, method, path, body, up) ==
    [endpoint |-> endpoint, method |-> method, path |-> path, body |-> body,
     up |-> up]

\* The request GetUserId makes.
whoami(who) ==
    call("whoami", "GET", "_matrix/client/r0/account/whoami", <<>>, who)

\* GetUserId after its look at s.UserId: the whoami request, and on an
\* answer that decodes the assignment s.UserId = response.UserID.
lookupUserId(who) ==
    IF do(who).err # nil
    THEN [userID |-> "", err |-> errorf("Error while fetching whoami"),
          stored |-> FALSE, UserId |-> UserId]
    ELSE IF ~Unmarshal(do(who).body).ok
    THEN [userID |-> "", err |-> errorf("Could not Unmarshal response"),
          stored |-> FALSE, UserId |-> UserId]
    ELSE [userID |-> Unmarshal(do(who).body).user_id, err |-> nil,
          stored |-> TRUE, UserId |-> Unmarshal(do(who).body).user_id]

\* The number of assignments to s.UserId in the calls of one command: one
\* when its first call is a whoami whose answer decodes.
storesOf(calls) ==
    IF calls # <<>> /\ calls[1].endpoint = "whoami"
          /\ lookupUserId(calls[1].up).stored
    THEN 1 ELSE 0

\* MatrixClient.GetUserId: the cached UserId, or whoami.
GetUserId(who) ==
    IF UserId # ""
    THEN [userID |-> UserId, err |-> nil, calls |-> <<>>, UserId |-> UserId]
    ELSE IF do(who).err # nil
    THEN [userID |-> "", err |-> errorf("Error while fetching whoami"),
          calls |-> <<whoami(who)>>, UserId |-> UserId]
    ELSE IF ~Unmarshal(do(who).body).ok
    THEN [userID |-> "", err |-> errorf("Could not Unmarshal response"),
          calls |-> <<whoami(who)>>, UserId |-> UserId]
    ELSE [userID |-> Unmarshal(do(who).body).user_id, err |-> nil,
          calls |-> <<whoami(who)>>,
          UserId |-> Unmarshal(do(who).body).user_id]

\* What a call of a MatrixClient method gives its caller: a value and an
\* error, or a panic; with the upstream calls made and UserId afterwards.
returned(value, err, calls, userId) ==
    [value |-> value, err |-> err, panic |-> FALSE, calls |-> calls,
     UserId |-> userId]
panicked(calls, userId) ==
    [value |-> "", err |-> nil, panic |-> TRUE, calls |-> calls,
     UserId |-> userId]

\* MatrixClient.SendTyping: err.(*MatrixError) panics when the error of the
\* PUT is of another type.
SendTyping(roomID, content, who, up) ==
    LET g == GetUserId(who)
        r == do(up)
        path == "_matrix/client/r0/rooms/" \o QueryEscape(roomID)
                    \o "/typing/" \o QueryEscape(g.userID)
        calls == g.calls \o <<call("typing", "PUT", path, <<content>>, up)>>
    IN  IF g.err # nil
        THEN returned("", g.err, g.calls, g.UserId)
        ELSE IF r.err = nil
        THEN returned(r.body, nil, calls, g.UserId)
        ELSE IF r.err.type # "MatrixError"
        THEN panicked(calls, g.UserId)
        ELSE IF r.err.StatusCode = StatusTooManyRequests
        THEN returned("{}", nil, calls, g.UserId)
        ELSE returned("", r.err, calls, g.UserId)

\* MatrixClient.SendReadMarkers
SendReadMarkers(roomID, content, up) ==
    LET path == "_matrix/client/r0/rooms/" \o QueryEscape(roomID)
                    \o "/read_markers"
    IN  returned(do(up).body, do(up).err,
                 <<call("read_markers", "POST", path, <<content>>, up)>>,
                 UserId)

\* MatrixClient.sendMessageOrState: the event_id of the answer.
sendMessageOrState(state, roomID, eventType, key, content, up) ==
    LET requestType == IF state THEN "state" ELSE "send"
        path == "_matrix/client/r0/rooms/" \o QueryEscape(roomID) \o "/"
                    \o requestType \o "/" \o QueryEscape(eventType) \o "/"
                    \o QueryEscape(key)
        r == do(up)
        sr == Unmarshal(r.body)
        calls == <<call(requestType, "PUT", path, <<content>>, up)>>
    IN  IF r.err # nil
        THEN returned("", r.err, calls, UserId)
        ELSE IF ~sr.ok
        THEN returned("", errorf("invalid character"), calls, UserId)
        ELSE returned(sr.event_id, nil, calls, UserId)

\* errorToResponse
errorToResponse(err) ==
    IF err.type = "MatrixError"
    THEN err.Details
    ELSE [ErrCode |-> "M_UNKNOWN", Error |-> err.msg]

\* MatrixErrorDetails
MatrixErrorDetails(errcode, error) == [ErrCode |-> errcode, Error |-> error]

\* What a handler gives handleRequestObject: the result ("" is nil) and the
\* pointer to the error (<<>> is nil), or a panic.
handled(result, calls, userId) ==
    [result |-> result, error |-> <<>>, panic |-> FALSE, calls |-> calls,
     UserId |-> userId]
failed_withResult(details, calls, userId) ==
    [result |-> "{}", error |-> <<details>>, panic |-> FALSE, calls |-> calls,
     UserId |-> userId]
failed(details, calls, userId) ==
    [result |-> "", error |-> <<details>>, panic |-> FALSE, calls |-> calls,
     UserId |-> userId]
handlerOf(r, result) ==
    IF r.panic
    THEN [result |-> "", error |-> <<>>, panic |-> TRUE, calls |-> r.calls,
          UserId |-> r.UserId]
    ELSE IF r.err # nil
    THEN failed(errorToResponse(r.err), r.calls, r.UserId)
    ELSE handled(result, r.calls, r.UserId)

\* json.Marshal of SendResponse / StateResponse
marshalEventID(event_id) == "{'event_id':'" \o event_id \o "'}"

\* The content of the client's event when the params carry one.
clientContent == [body |-> "hi"]

\* json.Marshal of ReadMarkerUpstreamRequest: both members are omitempty
\* (m_fully_read and m_read stand for the keys m.fully_read and m.read).
marshalReadMarkers(fullyRead, read) ==
    CASE fullyRead # "" /\ read # "" ->
            [m_fully_read |-> fullyRead, m_read |-> read]
      [] fullyRead # "" /\ read = "" -> [m_fully_read |-> fullyRead]
      [] fullyRead = "" /\ read # "" -> [m_read |-> read]
      [] OTHER -> [none |-> TRUE]

\* json.Marshal of TypingRequest: timeout is omitempty.
marshalTyping(content) ==
    IF content.Timeout = 0
    THEN [room_id |-> content.Room_ID, typing |-> content.Typing]
    ELSE [room_id |-> content.Room_ID, typing |-> content.Typing,
          timeout |-> content.Timeout]

\* handlePing dropping the cached UserId.
handlePing_forget(req) == handled("{}", <<>>, "")

handlePing(req) == handled("{}", <<>>, UserId)

handleReadMarkers(req, up) ==
    IF ~req.params.ok
    THEN failed(errorToResponse(errorf("invalid character")), <<>>, UserId)
    ELSE IF req.params.Room_ID = ""
    THEN failed(MatrixErrorDetails("M_BAD_JSON", "Missing room_id"),
                <<>>, UserId)
    ELSE IF req.params.FullyRead = "" /\ req.params.Read = ""
    THEN failed(MatrixErrorDetails("M_BAD_JSON",
                    "either m.read or m.fully_read are required"),
                <<>>, UserId)
    ELSE handlerOf(SendReadMarkers(req.params.Room_ID,
                       marshalReadMarkers(req.params.FullyRead,
                                          req.params.Read), up), "{}")

\* handleSend and handleState without the check for 'content'.
handleSendOrState_anyContent(state, key, req, up) ==
    IF ~req.params.ok
    THEN failed(errorToResponse(errorf("invalid character")), <<>>, UserId)
    ELSE IF req.params.Room_ID = ""
    THEN failed(MatrixErrorDetails("M_BAD_JSON", "Missing room_id"),
                <<>>, UserId)
    ELSE IF req.params.Event_Type = ""
    THEN failed(MatrixErrorDetails("M_BAD_JSON", "Missing event_type"),
                <<>>, UserId)
    ELSE LET r == sendMessageOrState(state, req.params.Room_ID,
                                     req.params.Event_Type, key,
                                     clientContent, up)
         IN  handlerOf(r, marshalEventID(r.value))

\* The checks handleSend and handleState share, after handleSend's own for
\* the request ID.
handleSendOrState(state, key, req, up) ==
    IF ~req.params.ok
    THEN failed(errorToResponse(errorf("invalid character")), <<>>, UserId)
    ELSE IF req.params.Room_ID = ""
    THEN failed(MatrixErrorDetails("M_BAD_JSON", "Missing room_id"),
                <<>>, UserId)
    ELSE IF req.params.Event_Type = ""
    THEN failed(MatrixErrorDetails("M_BAD_JSON", "Missing event_type"),
                <<>>, UserId)
    ELSE IF ~req.params.Content
    THEN failed(MatrixErrorDetails("M_BAD_JSON", "Missing content"),
                <<>>, UserId)
    ELSE LET r == sendMessageOrState(state, req.params.Room_ID,
                                     req.params.Event_Type, key,
                                     clientContent, up)
         IN  handlerOf(r, marshalEventID(r.value))

\* handleSend with a fixed transaction id.
handleSend_fixedTxn(req, up) ==
    IF req.id = <<>>
    THEN failed(MatrixErrorDetails("M_BAD_JSON", "Missing request ID"),
                <<>>, UserId)
    ELSE handleSendOrState(FALSE, "1", req, up)

handleSend(req, up) ==
    IF req.id = <<>>
    THEN failed(MatrixErrorDetails("M_BAD_JSON", "Missing request ID"),
                <<>>, UserId)
    ELSE handleSendOrState(FALSE, req.id[1], req, up)

handleState(req, up) ==
    handleSendOrState(TRUE, req.params.State_Key, req, up)

\* handleTyping copying the timeout whatever the typing flag.
handleTyping_anyTimeout(req, who, up) ==
    IF ~req.params.ok
    THEN failed(errorToResponse(errorf("invalid character")), <<>>, UserId)
    ELSE IF req.params.Room_ID = ""
    THEN failed(MatrixErrorDetails("M_BAD_JSON", "Missing room_id"),
                <<>>, UserId)
    ELSE LET content ==
                 [Room_ID |-> req.params.Room_ID,
                  Typing |-> req.params.Typing,
                  Timeout |-> req.params.Timeout]
         IN  handlerOf(SendTyping(req.params.Room_ID, marshalTyping(content),
                                  who, up), "{}")

handleTyping(req, who, up) ==
    IF ~req.params.ok
    THEN failed(errorToResponse(errorf("invalid character")), <<>>, UserId)
    ELSE IF req.params.Room_ID = ""
    THEN failed(MatrixErrorDetails("M_BAD_JSON", "Missing room_id"),
                <<>>, UserId)
    ELSE LET content ==
                 [Room_ID |-> req.params.Room_ID,
                  Typing |-> req.params.Typing,
                  Timeout |-> IF req.params.Typing /\ req.params.Timeout # 0
                                 THEN req.params.Timeout ELSE 0]
         IN  handlerOf(SendTyping(req.params.Room_ID, marshalTyping(content),
                                  who, up), "{}")

\* handleRequestObject: the handler of handlerMap, or "Unknown method".
handleRequestObject(req, who, up) ==
    CASE req.method = "ping" -> handlePing(req)
      [] req.method = "read_markers" -> handleReadMarkers(req, up)
      [] req.method = "send" -> handleSend(req, up)
      [] req.method = "state" -> handleState(req, up)
      [] req.method = "typing" -> handleTyping(req, who, up)
      [] OTHER -> failed(MatrixErrorDetails("M_BAD_JSON", "Unknown method"),
                         <<>>, UserId)

\* jsonResponse
jsonResponse(id, result, error) ==
    [id |-> id, result |-> result, error |-> error]

\* The lines do writes for the upstream calls of a command.
callsLog(calls) ==
    UNION {doLog(calls[i].path, calls[i].up) : i \in DOMAIN calls}

\* No handleMessage call is running.
noHandling == [h |-> 0]

\* handleRequest without the check of json.Unmarshal's error.
handleRequest_unchecked(req, who, up) ==
    LET r == handleRequestObject(req, who, up)
    IN  [resp |-> jsonResponse(req.id, r.result, r.error),
         panic |-> r.panic, calls |-> r.calls, UserId |-> r.UserId]

\* handleRequest: the response to a message, or a panic; who and up are the
\* answers upstream gives if asked.
handleRequest(req, who, up) ==
    IF ~req.decodable
    THEN [resp |-> jsonResponse(<<>>, "",
                       <<MatrixErrorDetails("M_NOT_JSON", "invalid character")>>),
          panic |-> FALSE, calls |-> <<>>, UserId |-> UserId]
    ELSE LET r == handleRequestObject(req, who, up)
         IN  [resp |-> jsonResponse(req.id, r.result, r.error),
              panic |-> r.panic, calls |-> r.calls, UserId |-> r.UserId]

----------------------------------------------------------------------------
(* The initial state *)

\* The connection before serveStream calls Sync: nothing runs yet.
ConnInit ==
    /\ servePc = "sync"
    /\ readerPc = "idle"
    /\ writerPc = "idle"
    /\ pumpPc = "idle"
    /\ handlers = [h \in Handlers |-> "unused"]
    /\ send = <<>>
    /\ quit = FALSE
    /\ quitCloses = 0
    /\ wsClosed = FALSE
    /\ wire = <<>>
    /\ pingFrames = <<>>
    /\ enqueued = <<>>
    /\ dequeued = 0
    /\ polls = 0
    /\ pings = 0
    /\ cmds = 0
    /\ writeErr = FALSE
    /\ syncErr = FALSE
    /\ readErr = "none"
    /\ now = 0
    /\ readDeadline = 0
    /\ tickAt = 0
    /\ tick = FALSE
    /\ pongs = <<>>
    /\ closeChan = 0
    /\ closerPc = "idle"

\* The client serveStream makes: NewClient, then NextSyncBatch and Filter
\* from the 'since' and 'filter' parameters of the request.
ClientInit(sinces, filters, tokens, answers) ==
    /\ NextSyncBatch \in sinces
    /\ Filter \in filters
    /\ lastSync = [n |-> 0]
    /\ errmsg = ""
    /\ httpResponse = [written |-> FALSE, status |-> 0, contentType |-> "",
                       body |-> ""]
    /\ UserId = ""
    /\ userIdStores = 0
    /\ handling = noHandling
    /\ aborted = FALSE
    /\ AccessToken \in tokens
    /\ logged = {logLine("Got websocket request to", <<URL("/stream")>>)}
    /\ doCall \in {[returned |-> FALSE, up |-> up] : up \in answers}

\* A request with neither 'since' nor 'filter'.
Init == ConnInit /\ ClientInit({""}, {""}, {"tokA"}, {noResponse})

\* The access tokens of the requests to /stream.
AccessTokens == {"tokA", "tokB"}

\* A request with or without 'since' and 'filter', with either token.
SyncInit ==
    ConnInit /\ ClientInit({"", "s0"}, {"", "f0"}, AccessTokens, {noResponse})

----------------------------------------------------------------------------
(* The channels *)

\* A send on the buffered channel: the value goes to the back of the buffer.
chanSend_front(q, m) == <<m>> \o q
chanSend(q, m) == Append(q, m)

\* close(c.quit)
closeQuit ==
    /\ quit' = TRUE
    /\ quitCloses' = quitCloses + 1

\* SendMessage writing the text frame straight to the socket from the caller.
SendMessage_direct(src, n) ==
    /\ Len(send) < QueueCap
    /\ wire' = Append(wire, frame(src, message("text", src, n, 0)))
    /\ UNCHANGED <<send, enqueued>>

\* SendMessage as a select with a default case: on a full channel the
\* message is dropped and the caller goes on.
SendMessage_dropping(src, n) ==
    IF Len(send) < QueueCap
    THEN /\ send' = chanSend(send, message("text", src, n, 0))
         /\ enqueued' = Append(enqueued, message("text", src, n, 0))
         /\ UNCHANGED wire
    ELSE UNCHANGED <<send, enqueued, wire>>

\* Connection.SendMessage: blocks while the channel is full.
SendMessage(src, n) ==
    /\ Len(send) < QueueCap
    /\ send' = chanSend(send, message("text", src, n, 0))
    /\ enqueued' = Append(enqueued, message("text", src, n, 0))
    /\ UNCHANGED wire

\* SendClose writing the close frame straight to the socket from the caller.
SendClose_direct(src, n, closeCode) ==
    /\ Len(send) < QueueCap
    /\ wire' = Append(wire, frame(src, message("close", src, n, closeCode)))
    /\ UNCHANGED <<send, enqueued>>

\* Connection.SendClose: blocks while the channel is full.
SendClose(src, n, closeCode) ==
    /\ Len(send) < QueueCap
    /\ send' = chanSend(send, message("close", src, n, closeCode))
    /\ enqueued' = Append(enqueued, message("close", src, n, closeCode))
    /\ UNCHANGED wire

----------------------------------------------------------------------------
(* serveStream *)

\* client.Sync(false) succeeds.
ServeSyncOk ==
    /\ servePc = "sync"
    /\ servePc' = "upgrade"
    /\ UNCHANGED <<readerPc, writerPc, pumpPc, handlers, chanVars, dequeued,
                   quitVars, wsVars, countVars, errVars>>

\* Where serveStream goes when the initial Sync fails, without the return.
serveOnSyncError_upgrade == "upgrade"
\* Where serveStream goes when the initial Sync fails: it writes the HTTP
\* error and returns.
serveOnSyncError == "httpError"

\* client.Sync(false) fails: an HTTP error is returned and nothing is started.
ServeSyncFail ==
    /\ servePc = "sync"
    /\ servePc' = serveOnSyncError
    /\ UNCHANGED <<readerPc, writerPc, pumpPc, handlers, chanVars, dequeued,
                   quitVars, wsVars, countVars, errVars>>

\* upgrader.Upgrade, then proxy.New on success.
ServeUpgrade ==
    /\ servePc = "upgrade"
    /\ \E ok \in BOOLEAN : servePc' = IF ok THEN "send" ELSE "upgradeError"
    /\ UNCHANGED <<readerPc, writerPc, pumpPc, handlers, chanVars, dequeued,
                   quitVars, wsVars, countVars, errVars>>

\* c.SendMessage(msg): the body of the initial sync.
ServeSendMessage ==
    /\ servePc = "send"
    /\ SendMessage("initial", 0)
    /\ servePc' = "start"
    /\ UNCHANGED <<readerPc, writerPc, pumpPc, handlers, dequeued,
                   quitVars, wsVars, countVars, errVars>>

\* Connection.Start, with serveStream calling Sync again afterwards.
Start_resync ==
    /\ servePc = "start"
    /\ servePc' = "sync"
    /\ writerPc' = "select"
    /\ pumpPc' = "check"
    /\ readerPc' = "read"
    /\ UNCHANGED <<handlers, chanVars, dequeued, quitVars, wsVars,
                   countVars, errVars>>

\* Connection.Start: the three goroutines are started.
Start ==
    /\ servePc = "start"
    /\ servePc' = "done"
    /\ writerPc' = "select"
    /\ pumpPc' = "check"
    /\ readerPc' = "read"
    /\ UNCHANGED <<handlers, chanVars, dequeued, quitVars, wsVars,
                   countVars, errVars>>

----------------------------------------------------------------------------
(* writePump *)

\* The results c.ws.WriteMessage can have (TRUE: no error). A write on a
\* socket that has been closed fails.
writeResults == IF wsClosed THEN {FALSE} ELSE BOOLEAN

\* Connection.write: the frame goes out when WriteMessage succeeds.
write(m, ok) ==
    /\ wire' = IF ok /\ m.type # "ping"
                  THEN Append(wire, frame("writer", m)) ELSE wire
    /\ pingFrames' = IF ok /\ m.type = "ping"
                        THEN Append(pingFrames, frame("writer", m))
                        ELSE pingFrames
    /\ writeErr' = (writeErr \/ ~ok)

\* writePump's return on a write error, closing c.quit on the way out.
writerErrReturn_close == closeQuit
\* writePump's return on a write error: nothing else is done.
writerErrReturn == UNCHANGED quitVars

\* Where writePump goes after a successful write of a dequeued message,
\* without the return after a close message.
writerAfterWrite_noexit(m) == "select"
\* Where writePump goes after a successful write of a dequeued message.
writerAfterWrite(m) == IF m.type = "close" THEN "done" ELSE "select"

\* case <-c.quit: return
WriterQuit ==
    /\ writerPc = "select"
    /\ quit
    /\ writerPc' = "done"
    /\ UNCHANGED <<servePc, readerPc, pumpPc, handlers, chanVars, dequeued,
                   quitVars, wsVars, countVars, errVars>>

\* case message := <-c.send: write it, return on error or after a close.
WriterSend ==
    /\ writerPc = "select"
    /\ Len(send) > 0
    /\ \E ok \in writeResults :
          /\ send' = Tail(send)
          /\ dequeued' = dequeued + 1
          /\ write(Head(send), ok)
          /\ IF ok
                THEN /\ writerPc' = writerAfterWrite(Head(send))
                     /\ UNCHANGED quitVars
                ELSE /\ writerPc' = "done"
                     /\ writerErrReturn
    /\ UNCHANGED <<servePc, readerPc, pumpPc, handlers, enqueued, wsClosed,
                   countVars, syncErr, readErr>>

\* case <-ticker.C: write a ping, return on error.
WriterPing ==
    /\ writerPc = "select"
    /\ pings < MaxPings
    /\ pings' = pings + 1
    /\ \E ok \in writeResults :
          /\ write(message("ping", "ticker", pings + 1, 0), ok)
          /\ IF ok
                THEN /\ writerPc' = "select"
                     /\ UNCHANGED quitVars
                ELSE /\ writerPc' = "done"
                     /\ writerErrReturn
    /\ UNCHANGED <<servePc, readerPc, pumpPc, handlers, send, enqueued,
                   dequeued, wsClosed, polls, cmds, syncErr, readErr>>

----------------------------------------------------------------------------
(* syncPump *)

\* syncPump's return after SendClose, closing c.quit on the way out.
pumpErrReturn_close == closeQuit
\* syncPump's return after SendClose: nothing else is done.
pumpErrReturn == UNCHANGED quitVars

\* Where syncPump goes after SendClose, without the return.
pumpAfterClose_loop == "check"
\* Where syncPump goes after SendClose.
pumpAfterClose == "done"

\* The top of syncPump's loop without the select on c.quit.
PumpCheckQuit_blind ==
    /\ pumpPc = "check"
    /\ pumpPc' = "sync"
    /\ UNCHANGED <<servePc, readerPc, writerPc, handlers, chanVars, dequeued,
                   quitVars, wsVars, countVars, errVars>>

\* select { case <-c.quit: return; default: }
PumpCheckQuit ==
    /\ pumpPc = "check"
    /\ pumpPc' = IF quit THEN "done" ELSE "sync"
    /\ UNCHANGED <<servePc, readerPc, writerPc, handlers, chanVars, dequeued,
                   quitVars, wsVars, countVars, errVars>>

\* c.client.Sync(true) returns a body.
PumpSyncOk ==
    /\ pumpPc = "sync"
    /\ polls < MaxPolls
    /\ polls' = polls + 1
    /\ pumpPc' = "sendMessage"
    /\ UNCHANGED <<servePc, readerPc, writerPc, handlers, chanVars, dequeued,
                   quitVars, wsVars, pings, cmds, errVars>>

\* c.client.Sync(true) returns an error.
PumpSyncFail ==
    /\ pumpPc = "sync"
    /\ syncErr' = TRUE
    /\ pumpPc' = "sendClose"
    /\ UNCHANGED <<servePc, readerPc, writerPc, handlers, chanVars, dequeued,
                   quitVars, wsVars, countVars, writeErr, readErr>>

\* c.SendMessage(body)
PumpSendMessage ==
    /\ pumpPc = "sendMessage"
    /\ SendMessage("sync", polls)
    /\ pumpPc' = "check"
    /\ UNCHANGED <<servePc, readerPc, writerPc, handlers, dequeued,
                   quitVars, wsVars, countVars, errVars>>

\* c.SendClose(websocket.CloseInternalServerErr, errmsg); return
PumpSendClose ==
    /\ pumpPc = "sendClose"
    /\ SendClose("sync", polls + 1, CloseInternalServerErr)
    /\ pumpPc' = pumpAfterClose
    /\ pumpErrReturn
    /\ UNCHANGED <<servePc, readerPc, writerPc, handlers, dequeued,
                   wsVars, countVars, errVars>>

----------------------------------------------------------------------------
(* reader and handleMessage *)

\* Where reader goes when ReadMessage returns an error, without the return.
readerOnError_continue == "read"
\* Where reader goes when ReadMessage returns an error, with c.ws.Close() as
\* the only deferred call.
readerOnError_closeWs == "closeWs"
\* Where reader goes when ReadMessage returns an error: it returns, and the
\* deferred close(c.quit) runs first.
readerOnError == "closeQuit"

\* ReadMessage returns a message and handleMessage is called in the reader
\* itself: the next read comes after the handler has returned.
ReaderRead_inline ==
    /\ readerPc = "read"
    /\ \A h \in Handlers : handlers[h] \in {"unused", "done"}
    /\ cmds < MaxCmds
    /\ cmds' = cmds + 1
    /\ handlers' = [handlers EXCEPT ![cmds + 1] = "handle"]
    /\ UNCHANGED <<servePc, readerPc, writerPc, pumpPc, chanVars, dequeued,
                   quitVars, wsVars, polls, pings, errVars>>

\* ReadMessage returns a message: go c.handleMessage(message)
ReaderRead ==
    /\ readerPc = "read"
    /\ cmds < MaxCmds
    /\ cmds' = cmds + 1
    /\ handlers' = [handlers EXCEPT ![cmds + 1] = "handle"]
    /\ UNCHANGED <<servePc, readerPc, writerPc, pumpPc, chanVars, dequeued,
                   quitVars, wsVars, polls, pings, errVars>>

\* ReadMessage returns an error.
ReaderFail ==
    /\ readerPc = "read"
    /\ \E e \in ReadErrors : readErr' = e
    /\ readerPc' = readerOnError
    /\ UNCHANGED <<servePc, writerPc, pumpPc, handlers, chanVars, dequeued,
                   quitVars, wsVars, countVars, writeErr, syncErr>>

\* defer close(c.quit)
ReaderCloseQuit ==
    /\ readerPc = "closeQuit"
    /\ closeQuit
    /\ readerPc' = "closeWs"
    /\ UNCHANGED <<servePc, writerPc, pumpPc, handlers, chanVars, dequeued,
                   wsVars, countVars, errVars>>

\* The reader's exit with the reader going back to its read on the
\* websocket instead of closing it.
ReaderCloseWs_resume ==
    /\ readerPc = "closeWs"
    /\ wsClosed' = FALSE
    /\ readerPc' = "read"
    /\ UNCHANGED <<servePc, writerPc, pumpPc, handlers, chanVars, dequeued,
                   quitVars, pingFrames, countVars, errVars>>

\* defer c.ws.Close()
ReaderCloseWs ==
    /\ readerPc = "closeWs"
    /\ wsClosed' = TRUE
    /\ readerPc' = "done"
    /\ UNCHANGED <<servePc, writerPc, pumpPc, handlers, chanVars, dequeued,
                   quitVars, pingFrames, countVars, errVars>>

\* handleMessage: handleRequest computes the response.
HandleRequest(h) ==
    /\ handlers[h] = "handle"
    /\ handlers' = [handlers EXCEPT ![h] = "send"]
    /\ UNCHANGED <<servePc, readerPc, writerPc, pumpPc, chanVars, dequeued,
                   quitVars, wsVars, countVars, errVars>>

\* handleMessage sending a response that does not tell which message it
\* answers.
HandlerSendMessage_anonymous(h) ==
    /\ handlers[h] = "send"
    /\ SendMessage("cmd", 0)
    /\ handlers' = [handlers EXCEPT ![h] = "done"]
    /\ UNCHANGED <<servePc, readerPc, writerPc, pumpPc, dequeued,
                   quitVars, wsVars, countVars, errVars>>

\* handleMessage: c.SendMessage(response)
HandlerSendMessage(h) ==
    /\ handlers[h] = "send"
    /\ SendMessage("cmd", h)
    /\ handlers' = [handlers EXCEPT ![h] = "done"]
    /\ UNCHANGED <<servePc, readerPc, writerPc, pumpPc, dequeued,
                   quitVars, wsVars, countVars, errVars>>

----------------------------------------------------------------------------

\* A step of the connection seen without the client's state, in a process
\* that has not been ended by a panic.
Conn(A) == ~aborted /\ A /\ UNCHANGED <<clientVars, sideVars>>

Next ==
    \/ Conn(ServeSyncOk)
    \/ Conn(ServeSyncFail)
    \/ Conn(ServeUpgrade)
    \/ Conn(ServeSendMessage)
    \/ Conn(Start)
    \/ Conn(WriterQuit)
    \/ Conn(WriterSend)
    \/ Conn(WriterPing)
    \/ Conn(PumpCheckQuit)
    \/ Conn(PumpSyncOk)
    \/ Conn(PumpSyncFail)
    \/ Conn(PumpSendMessage)
    \/ Conn(PumpSendClose)
    \/ Conn(ReaderRead)
    \/ Conn(ReaderFail)
    \/ Conn(ReaderCloseQuit)
    \/ Conn(ReaderCloseWs)
    \/ \E h \in Handlers : Conn(HandleRequest(h))
    \/ \E h \in Handlers : Conn(HandlerSendMessage(h))

Spec == Init /\ [][Next]_vars

\* Every goroutine that can take a step eventually takes one: a select with
\* c.quit closed eventually takes that case, an upstream call returns, and a
\* channel send that stays possible eventually proceeds. Nothing is assumed
\* about the peer (ReaderRead, ReaderFail) or the ticker.
FairSpec ==
    /\ Spec
    /\ WF_vars(Conn(ServeSyncOk \/ ServeSyncFail))
    /\ WF_vars(Conn(ServeUpgrade))
    /\ WF_vars(Conn(ServeSendMessage))
    /\ WF_vars(Conn(Start))
    /\ WF_vars(Conn(WriterQuit))
    /\ WF_vars(Conn(WriterSend))
    /\ WF_vars(Conn(PumpCheckQuit))
    /\ WF_vars(Conn(PumpSyncOk \/ PumpSyncFail))
    /\ WF_vars(Conn(PumpSendMessage))
    /\ WF_vars(Conn(PumpSendClose))
    /\ WF_vars(Conn(ReaderCloseQuit))
    /\ WF_vars(Conn(ReaderCloseWs))
    /\ \A h \in Handlers : WF_vars(Conn(HandleRequest(h)))
    /\ \A h \in Handlers : WF_vars(Conn(HandlerSendMessage(h)))

----------------------------------------------------------------------------
(* The connection together with MatrixClient.Sync *)

\* syncPump: a *url.Error is replaced by its inner error.
unwrap_none(err) == err
unwrap(err) == IF err.type = "url.Error" THEN dialError ELSE err

\* syncPump: the error string, trimmed for the close message.
closeReason(err) ==
    LET msg == unwrap(err).msg
    IN  IF Len(msg) > errmsgLimit
        THEN SubSeq(msg, 1, errmsgLimit) \o "..."
        ELSE msg

\* serveStream: msg, err := client.Sync(false), and the switch on err.
ServeSync ==
    /\ servePc = "sync"
    /\ \E up \in SyncAnswers :
          /\ SyncCall(FALSE, up)
          /\ IF Sync(FALSE, up).err = nil
                THEN /\ ServeSyncOk
                     /\ UNCHANGED httpResponse
                ELSE /\ ServeSyncFail
                     /\ httpResponse' = serveStreamError(Sync(FALSE, up).err)
          /\ logged' = syncLog("Error in sync", up, Sync(FALSE, up).err)
          /\ UNCHANGED <<cmdVars, AccessToken, doCall, errmsg, sideVars>>

\* syncPump: body, err := c.client.Sync(true)
PumpSync ==
    /\ pumpPc = "sync"
    /\ \E up \in SyncAnswers :
          /\ SyncCall(TRUE, up)
          /\ IF Sync(TRUE, up).err = nil
                THEN PumpSyncOk /\ UNCHANGED errmsg
                ELSE PumpSyncFail /\ errmsg' = closeReason(Sync(TRUE, up).err)
          /\ logged' = syncLog("Error performing sync", up,
                               Sync(TRUE, up).err)
          /\ UNCHANGED <<httpResponse, cmdVars, AccessToken, doCall,
                         sideVars>>

\* serveStream, the sync pump and the writer with the upstream answers to
\* /sync; the reader only ends the connection.
SyncNext ==
    \/ ServeSync
    \/ Conn(ServeUpgrade)
    \/ Conn(ServeSendMessage)
    \/ Conn(Start)
    \/ Conn(WriterQuit)
    \/ Conn(WriterSend)
    \/ Conn(PumpCheckQuit)
    \/ PumpSync
    \/ Conn(PumpSendMessage)
    \/ Conn(PumpSendClose)
    \/ Conn(ReaderFail)
    \/ Conn(ReaderCloseQuit)
    \/ Conn(ReaderCloseWs)

SyncSpec == SyncInit /\ [][SyncNext]_vars

\* SyncSpec with the fairness of FairSpec.
FairSyncSpec ==
    /\ SyncSpec
    /\ WF_vars(ServeSync)
    /\ WF_vars(Conn(ServeUpgrade))
    /\ WF_vars(Conn(ServeSendMessage))
    /\ WF_vars(Conn(Start))
    /\ WF_vars(Conn(WriterQuit))
    /\ WF_vars(Conn(WriterSend))
    /\ WF_vars(Conn(PumpCheckQuit))
    /\ WF_vars(PumpSync)
    /\ WF_vars(Conn(PumpSendMessage))
    /\ WF_vars(Conn(PumpSendClose))
    /\ WF_vars(Conn(ReaderCloseQuit))
    /\ WF_vars(Conn(ReaderCloseWs))

----------------------------------------------------------------------------
(* The connection together with handleRequest *)

\* handleMessage: handleRequest(message, c.client) on the message the reader
\* handed over. A panic in it is not recovered and ends the process.
Dispatch(h) ==
    /\ ~aborted
    /\ handlers[h] = "handle"
    /\ \E req \in Requests :
       \E who \in IF req.method = "typing" /\ UserId = ""
                     THEN WhoamiAnswers ELSE {noResponse} :
       \E up \in IF req.method \in {"send", "state", "typing", "read_markers"}
                    THEN CmdAnswers ELSE {noResponse} :
          LET out == handleRequest(req, who, up)
          IN  /\ handling' = [h |-> h, req |-> req, calls |-> out.calls,
                              resp |-> out.resp, panic |-> out.panic]
              /\ UserId' = out.UserId
              /\ userIdStores' = userIdStores + storesOf(handling'.calls)
              /\ logged' = callsLog(handling'.calls)
              /\ IF out.panic
                    THEN /\ aborted' = TRUE
                         /\ UNCHANGED connVars
                    ELSE /\ aborted' = FALSE
                         /\ HandleRequest(h)
    /\ UNCHANGED <<syncVars, AccessToken, doCall, sideVars>>

\* handleMessage: c.SendMessage(response), and the return; nothing the
\* call logged is in hand any more.
Respond(h) ==
    /\ ~aborted
    /\ handling.h = h
    /\ HandlerSendMessage(h)
    /\ handling' = noHandling
    /\ logged' = {}
    /\ UNCHANGED <<syncVars, UserId, userIdStores, aborted, AccessToken,
                   doCall, sideVars>>

\* ReadMessage returns the next message of a client that sends one message
\* at a time: it has been sent everything the connection had for it.
ReadNext ==
    /\ \A h \in Handlers : handlers[h] \in {"unused", "done"}
    /\ send = <<>>
    /\ Conn(ReaderRead)

\* serveStream, the reader, the handlers and the writer with the messages
\* of such a client and the upstream answers to its commands.
CmdNext ==
    \/ Conn(ServeSyncOk)
    \/ Conn(ServeSyncFail)
    \/ Conn(ServeUpgrade)
    \/ Conn(ServeSendMessage)
    \/ Conn(Start)
    \/ Conn(WriterQuit)
    \/ Conn(WriterSend)
    \/ ReadNext
    \/ Conn(ReaderFail)
    \/ Conn(ReaderCloseQuit)
    \/ Conn(ReaderCloseWs)
    \/ \E h \in Handlers : Dispatch(h)
    \/ \E h \in Handlers : Respond(h)

CmdSpec == Init /\ [][CmdNext]_vars

----------------------------------------------------------------------------
(* The connection together with GetUserId, step by step *)

\* What a handler's step leaves alone.
handlerFrame ==
    UNCHANGED <<servePc, readerPc, writerPc, pumpPc, chanVars, dequeued,
                quitVars, wsVars, countVars, errVars>>

\* SendTyping calls GetUserId: if s.UserId != "" { return s.UserId, nil }
GetUserIdCheck(h) ==
    /\ ~aborted
    /\ handlers[h] = "handle"
    /\ handlers' = [handlers EXCEPT
                       ![h] = IF UserId # "" THEN "put" ELSE "request"]
    /\ handlerFrame
    /\ UNCHANGED <<clientVars, sideVars>>

\* GetUserId: s.get sends the whoami request.
GetUserIdRequest(h) ==
    /\ ~aborted
    /\ handlers[h] = "request"
    /\ handlers' = [handlers EXCEPT ![h] = "whoami"]
    /\ handlerFrame
    /\ UNCHANGED <<clientVars, sideVars>>

\* GetUserId: s.get returns; on an answer that decodes s.UserId is assigned,
\* else SendTyping returns the error.
GetUserIdReturn(h) ==
    /\ ~aborted
    /\ handlers[h] = "whoami"
    /\ \E who \in WhoamiAnswers :
          /\ UserId' = lookupUserId(who).UserId
          /\ userIdStores' =
                userIdStores + (IF lookupUserId(who).stored THEN 1 ELSE 0)
          /\ handlers' = [handlers EXCEPT
                ![h] = IF lookupUserId(who).err = nil THEN "put" ELSE "send"]
    /\ handlerFrame
    /\ UNCHANGED <<syncVars, handling, aborted, logVars, doCall, sideVars>>

\* SendTyping: the PUT is answered and handleRequest has its response.
TypingPut(h) ==
    /\ ~aborted
    /\ handlers[h] = "put"
    /\ handlers' = [handlers EXCEPT ![h] = "send"]
    /\ handlerFrame
    /\ UNCHANGED <<clientVars, sideVars>>

\* serveStream, the reader, the writer and the handlers of a client that
\* sends typing commands, each handler taking GetUserId's steps.
IdNext ==
    \/ Conn(ServeSyncOk)
    \/ Conn(ServeUpgrade)
    \/ Conn(ServeSendMessage)
    \/ Conn(Start)
    \/ Conn(WriterSend)
    \/ Conn(ReaderRead)
    \/ \E h \in Handlers : GetUserIdCheck(h)
    \/ \E h \in Handlers : GetUserIdRequest(h)
    \/ \E h \in Handlers : GetUserIdReturn(h)
    \/ \E h \in Handlers : TypingPut(h)
    \/ \E h \in Handlers : Conn(HandlerSendMessage(h))

IdSpec == Init /\ [][IdNext]_vars

----------------------------------------------------------------------------
(* The connection with its timers: the ping ticker and the read deadline *)

\* What the steps of the timers leave alone.
timerFrame ==
    UNCHANGED <<servePc, pumpPc, handlers, send, enqueued, dequeued,
                quitVars, wsClosed, polls, cmds, syncErr, clientVars,
                closerVars>>

\* Connection.Start; the reader sets the read deadline and the writer starts
\* its ticker.
PingStart ==
    /\ ~aborted
    /\ Start
    /\ readDeadline' = now + pongWait
    /\ tickAt' = now + pingPeriod
    /\ UNCHANGED <<now, tick, pongs, clientVars, closerVars>>

\* The ticker fires: a tick is put in its channel, which holds one.
TickerFire ==
    /\ servePc = "done"
    /\ writerPc = "select"
    /\ now = tickAt
    /\ tick' = TRUE
    /\ tickAt' = tickAt + pingPeriod
    /\ UNCHANGED <<now, readDeadline, pongs, connVars, clientVars,
                   closerVars>>

\* case <-ticker.C: the ping is written; the peer answers every ping, and
\* its pong reaches the reader some seconds later.
WriterTick ==
    /\ writerPc = "select"
    /\ tick
    /\ tick' = FALSE
    /\ pings' = pings + 1
    /\ \E ok \in writeResults :
          /\ write(message("ping", "ticker", pings + 1, 0), ok)
          /\ IF ok
                THEN /\ writerPc' = "select"
                     /\ \E d \in 0..MaxPongDelay :
                           pongs' = Append(pongs, [ping |-> now,
                                                   at |-> now + d,
                                                   got |-> FALSE])
                ELSE /\ writerPc' = "done"
                     /\ pongs' = pongs
    /\ writerErrReturn
    /\ UNCHANGED <<now, readDeadline, tickAt, readerPc, readErr>>
    /\ timerFrame

\* The pong handler without the call of SetReadDeadline.
PongReceived_noRearm ==
    /\ readerPc = "read"
    /\ \E i \in DOMAIN pongs :
          /\ ~pongs[i].got
          /\ pongs[i].at <= now
          /\ pongs' = [pongs EXCEPT ![i].got = TRUE]
    /\ UNCHANGED <<now, readDeadline, tickAt, tick, connVars, clientVars,
                   closerVars>>

\* A pong arrives while the reader is in ReadMessage: the pong handler sets
\* the read deadline to pongWait from now.
PongReceived ==
    /\ readerPc = "read"
    /\ \E i \in DOMAIN pongs :
          /\ ~pongs[i].got
          /\ pongs[i].at <= now
          /\ pongs' = [pongs EXCEPT ![i].got = TRUE]
    /\ readDeadline' = now + pongWait
    /\ UNCHANGED <<now, tickAt, tick, connVars, clientVars, closerVars>>

\* ReadMessage returns a timeout error: the read deadline has passed.
ReaderTimeout ==
    /\ readerPc = "read"
    /\ now >= readDeadline
    /\ readErr' = "other"
    /\ readerPc' = readerOnError
    /\ UNCHANGED <<writerPc, wire, pingFrames, pings, writeErr, timeVars>>
    /\ timerFrame

\* A second passes: the ticker has fired if it was due, the writer has taken
\* the tick if there was one, and the reader has seen a pong that has
\* arrived and a deadline that has passed.
Advance ==
    /\ servePc = "done"
    /\ now < MaxTime
    /\ writerPc = "select" => (now < tickAt /\ ~tick)
    /\ readerPc = "read" =>
          /\ now < readDeadline
          /\ \A i \in DOMAIN pongs : pongs[i].got \/ pongs[i].at > now
    /\ now' = now + 1
    /\ UNCHANGED <<readDeadline, tickAt, tick, pongs, connVars, clientVars,
                   closerVars>>

\* serveStream, the writer and the reader with the timers and a peer that
\* sends nothing but a pong for every ping.
PingNext ==
    \/ Conn(ServeSyncOk)
    \/ Conn(ServeUpgrade)
    \/ Conn(ServeSendMessage)
    \/ PingStart
    \/ Conn(WriterSend)
    \/ Conn(WriterQuit)
    \/ TickerFire
    \/ WriterTick
    \/ PongReceived
    \/ ReaderTimeout
    \/ Conn(ReaderCloseQuit)
    \/ Conn(ReaderCloseWs)
    \/ Advance

PingSpec == Init /\ [][PingNext]_vars

----------------------------------------------------------------------------
(* MatrixConnection: the revision of the connection with closeChan, doClose *)
(* and the closer goroutine                                                 *)

\* What no step of MatrixConnection touches.
mcFrame == UNCHANGED <<servePc, clientVars, timeVars>>

\* doClose: c.closeChan <- struct{}{}, which blocks while the channel is
\* full.
doClose ==
    /\ closeChan < goroutineCount
    /\ closeChan' = closeChan + 1

\* StartPumps: the closer, the writer, the sync pump and the reader are
\* started.
StartPumps ==
    /\ ~aborted
    /\ servePc = "start"
    /\ servePc' = "done"
    /\ closerPc' = "wait"
    /\ writerPc' = "select"
    /\ pumpPc' = "check"
    /\ readerPc' = "read"
    /\ UNCHANGED <<handlers, chanVars, dequeued, quitVars, wsVars,
                   countVars, errVars, closeChan, clientVars, timeVars>>

\* closer: case <-c.closeChan: close(c.quit)
CloserReceive ==
    /\ closerPc = "wait"
    /\ closeChan > 0
    /\ closeChan' = closeChan - 1
    /\ closeQuit
    /\ closerPc' = "closeWs"
    /\ UNCHANGED <<readerPc, writerPc, pumpPc, handlers, chanVars, dequeued,
                   wsVars, countVars, errVars>>
    /\ mcFrame

\* closer: c.ws.Close()
CloserCloseWs ==
    /\ closerPc = "closeWs"
    /\ wsClosed' = TRUE
    /\ closerPc' = "done"
    /\ UNCHANGED <<readerPc, writerPc, pumpPc, handlers, chanVars, dequeued,
                   quitVars, pingFrames, countVars, errVars, closeChan>>
    /\ mcFrame

\* reader: ReadMessage returns a message; handleMessage only logs it.
McReaderRead ==
    /\ readerPc = "read"
    /\ ~wsClosed
    /\ cmds < MaxCmds
    /\ cmds' = cmds + 1
    /\ handlers' = [handlers EXCEPT ![cmds + 1] = "done"]
    /\ UNCHANGED <<readerPc, writerPc, pumpPc, chanVars, dequeued, quitVars,
                   wsVars, polls, pings, errVars, closerVars>>
    /\ mcFrame

\* reader: ReadMessage returns an error.
McReaderFail ==
    /\ readerPc = "read"
    /\ \E e \in ReadErrors : readErr' = e
    /\ readerPc' = "doClose"
    /\ UNCHANGED <<writerPc, pumpPc, handlers, chanVars, dequeued, quitVars,
                   wsVars, countVars, writeErr, syncErr, closerVars>>
    /\ mcFrame

\* reader: c.doClose(); return
McReaderDoClose ==
    /\ readerPc = "doClose"
    /\ doClose
    /\ readerPc' = "done"
    /\ UNCHANGED <<writerPc, pumpPc, handlers, chanVars, dequeued, quitVars,
                   wsVars, countVars, errVars, closerPc>>
    /\ mcFrame

\* syncPump: select { case <-c.quit: return; default: }
McPumpCheckQuit ==
    /\ pumpPc = "check"
    /\ pumpPc' = IF quit THEN "done" ELSE "sync"
    /\ UNCHANGED <<readerPc, writerPc, handlers, chanVars, dequeued,
                   quitVars, wsVars, countVars, errVars, closerVars>>
    /\ mcFrame

\* syncPump: body, err := c.syncer.MakeRequest()
McPumpSync ==
    /\ pumpPc = "sync"
    /\ polls < MaxPolls
    /\ polls' = polls + 1
    /\ \E ok \in BOOLEAN :
          /\ pumpPc' = IF ok THEN "sendMessage" ELSE "sendClose"
          /\ syncErr' = (syncErr \/ ~ok)
    /\ UNCHANGED <<readerPc, writerPc, handlers, chanVars, dequeued,
                   quitVars, wsVars, pings, cmds, writeErr, readErr,
                   closerVars>>
    /\ mcFrame

\* syncPump: c.send <- message{websocket.CloseMessage, ...}
McPumpSendClose ==
    /\ pumpPc = "sendClose"
    /\ SendClose("sync", polls, CloseInternalServerErr)
    /\ pumpPc' = "doClose"
    /\ UNCHANGED <<readerPc, writerPc, handlers, dequeued, quitVars, wsVars,
                   countVars, errVars, closerVars>>
    /\ mcFrame

\* syncPump: c.doClose(), after which the loop body goes on.
McPumpDoClose ==
    /\ pumpPc = "doClose"
    /\ doClose
    /\ pumpPc' = "sendMessage"
    /\ UNCHANGED <<readerPc, writerPc, handlers, chanVars, dequeued,
                   quitVars, wsVars, countVars, errVars, closerPc>>
    /\ mcFrame

\* syncPump: c.SendMessage(body)
McPumpSendMessage ==
    /\ pumpPc = "sendMessage"
    /\ SendMessage("sync", polls)
    /\ pumpPc' = "check"
    /\ UNCHANGED <<readerPc, writerPc, handlers, dequeued, quitVars, wsVars,
                   countVars, errVars, closerVars>>
    /\ mcFrame

\* The doClose calls writePump makes after writing a message: one when the
\* write failed and one when the message is a close message.
mcWriterAfterWrite(m, ok) ==
    CASE ~ok /\ m.type = "close" -> "doClose2"
      [] ~ok /\ m.type # "close" -> "doClose"
      [] ok /\ m.type = "close" -> "doClose"
      [] OTHER -> "select"

\* writePump: case <-c.quit: return
McWriterQuit ==
    /\ writerPc = "select"
    /\ quit
    /\ writerPc' = "done"
    /\ UNCHANGED <<readerPc, pumpPc, handlers, chanVars, dequeued, quitVars,
                   wsVars, countVars, errVars, closerVars>>
    /\ mcFrame

\* writePump: case message := <-c.send
McWriterSend ==
    /\ writerPc = "select"
    /\ Len(send) > 0
    /\ \E ok \in writeResults :
          /\ send' = Tail(send)
          /\ dequeued' = dequeued + 1
          /\ write(Head(send), ok)
          /\ writerPc' = mcWriterAfterWrite(Head(send), ok)
    /\ UNCHANGED <<readerPc, pumpPc, handlers, enqueued, quitVars, wsClosed,
                   countVars, syncErr, readErr, closerVars>>
    /\ mcFrame

\* writePump: case <-ticker.C
McWriterPing ==
    /\ writerPc = "select"
    /\ pings < MaxPings
    /\ pings' = pings + 1
    /\ \E ok \in writeResults :
          /\ write(message("ping", "ticker", pings + 1, 0), ok)
          /\ writerPc' = IF ok THEN "select" ELSE "doClose"
    /\ UNCHANGED <<readerPc, pumpPc, handlers, send, enqueued, dequeued,
                   quitVars, wsClosed, polls, cmds, syncErr, readErr,
                   closerVars>>
    /\ mcFrame

\* writePump: c.doClose()
McWriterDoClose ==
    /\ writerPc \in {"doClose", "doClose2"}
    /\ doClose
    /\ writerPc' = IF writerPc = "doClose2" THEN "doClose" ELSE "select"
    /\ UNCHANGED <<readerPc, pumpPc, handlers, chanVars, dequeued, quitVars,
                   wsVars, countVars, errVars, closerPc>>
    /\ mcFrame

\* serveStream and the four goroutines of MatrixConnection.
CloserNext ==
    \/ Conn(ServeSyncOk)
    \/ Conn(ServeUpgrade)
    \/ Conn(ServeSendMessage)
    \/ StartPumps
    \/ CloserReceive
    \/ CloserCloseWs
    \/ McReaderRead
    \/ McReaderFail
    \/ McReaderDoClose
    \/ McPumpCheckQuit
    \/ McPumpSync
    \/ McPumpSendClose
    \/ McPumpDoClose
    \/ McPumpSendMessage
    \/ McWriterQuit
    \/ McWriterSend
    \/ McWriterPing
    \/ McWriterDoClose

CloserSpec == Init /\ [][CloserNext]_vars

----------------------------------------------------------------------------
(* MatrixClient.do on its own *)

\* The answers of upstream do is applied to: none, an unreadable one, and
\* each status with each Content-Type and body.
DoStatuses == {200, 201, 204, 400, 429, 500}
DoContentTypes ==
    {"application/json", "application/json; charset=utf-8", "text/html"}
DoBodies ==
    {"{}", "{'event_id':'$e'}", "{'errcode':'M_FORBIDDEN','error':'denied'}",
     "<html>busy</html>"}
DoAnswers ==
    {noResponse}
        \cup {unreadable(st, ct) : st \in DoStatuses, ct \in DoContentTypes}
        \cup {response(st, ct, b) :
                st \in DoStatuses, ct \in DoContentTypes, b \in DoBodies}

DoInit ==
    ConnInit /\ ClientInit({""}, {""}, {"tokA"}, DoAnswers)

\* do returns.
DoReturn ==
    /\ ~doCall.returned
    /\ doCall' = [returned |-> TRUE, up |-> doCall.up,
                  body |-> do(doCall.up).body, err |-> do(doCall.up).err]
    /\ UNCHANGED <<connVars, syncVars, cmdVars, logVars, sideVars>>

DoNext == DoReturn

DoSpec == DoInit /\ [][DoNext]_vars

----------------------------------------------------------------------------
(* Properties *)

\* The messages of the data and close frames on the websocket, in order.
Transmitted == [i \in 1..Len(wire) |-> frameMessage(wire[i])]

\* A close frame has been written to the websocket.
CloseSent == \E i \in DOMAIN wire : wire[i].type = "close"

\* The close messages sent on c.send so far.
CloseDirectives == SelectSeq(enqueued, LAMBDA m : m.type = "close")

\* C1: every frame on the websocket (data, ping, close) was written by the
\* writer, and every data or close frame it wrote is a message that some
\* other flow had sent on c.send.
C1_OnlyWriterWrites ==
    /\ \A i \in DOMAIN wire : wire[i].by = "writer"
    /\ \A i \in DOMAIN pingFrames : pingFrames[i].by = "writer"
    /\ \A i \in DOMAIN Transmitted :
          \E j \in DOMAIN enqueued : enqueued[j] = Transmitted[i]

\* The writer has written a ping, a sync body, a command response and a close.
C1_Witness ==
    /\ Len(pingFrames) > 0
    /\ \E i \in DOMAIN wire : wire[i].type = "text" /\ wire[i].src = "sync"
    /\ \E i \in DOMAIN wire : wire[i].type = "text" /\ wire[i].src = "cmd"
    /\ CloseSent

\* C2: the data and close frames on the websocket are the messages sent on
\* c.send, in the order of the sends, without gap or repetition; what is
\* still in the channel is the rest in the same order.
C2_FifoOrder ==
    /\ Len(Transmitted) <= dequeued
    /\ Transmitted = SubSeq(enqueued, 1, Len(Transmitted))
    /\ dequeued <= Len(enqueued)
    /\ send = SubSeq(enqueued, dequeued + 1, Len(enqueued))

\* A command response, then a sync body, then the close frame went out, after
\* the sends of the pump and of a handler interleaved.
C2_Witness ==
    \E i, j, k \in DOMAIN Transmitted :
        /\ i < j /\ j < k
        /\ Transmitted[i].src = "cmd"
        /\ Transmitted[j].src = "sync" /\ Transmitted[j].type = "text"
        /\ Transmitted[k].type = "close"

\* C3: once a close frame is on the websocket the writer has returned: no
\* further frame is written and nothing more is received from c.send.
C3_NoWriteAfterClose ==
    [][CloseSent => /\ wire' = wire
                    /\ pingFrames' = pingFrames
                    /\ dequeued' = dequeued
                    /\ writerPc = "done"
                    /\ writerPc' = "done"]_vars

\* The close frame is out, a message is left behind it in the channel and
\* the ticker has ticks left.
C3_Witness ==
    /\ CloseSent
    /\ Len(send) > 0
    /\ pings < MaxPings

\* C4: once c.quit is closed, the reader, the writer and the sync pump all
\* eventually return.
C4_AllFlowsExit ==
    quit ~> (readerPc = "done" /\ writerPc = "done" /\ pumpPc = "done")

\* C5: once c.quit is closed, every handleMessage goroutine that was started
\* eventually returns.
C5_HandlersTerminate ==
    \A h \in Handlers :
        (quit /\ handlers[h] \in {"handle", "send"}) ~> (handlers[h] = "done")

\* C6: close(c.quit) is executed at most once, and c.quit never reopens.
C6_QuitClosedOnce ==
    /\ [](quitCloses <= 1 /\ (quit <=> quitCloses = 1))
    /\ [][quit => quit']_vars

\* c.quit is closed after the writer has failed, the pump has failed and
\* all three goroutines have returned.
C6_Witness ==
    /\ quit
    /\ writeErr
    /\ syncErr
    /\ readerPc = "done" /\ writerPc = "done" /\ pumpPc = "done"

C9_PollFailureCloses ==
    /\ [](/\ Len(CloseDirectives) <= 1
          /\ \A i \in DOMAIN CloseDirectives :
                /\ CloseDirectives[i].code = 1011
                /\ CloseDirectives[i].src = "sync"
          /\ Len(CloseDirectives) = 1 => syncErr
          /\ syncErr => pumpPc \in {"sendClose", "done"}
          /\ (syncErr /\ pumpPc = "done") => Len(CloseDirectives) = 1
          /\ \A i, j \in DOMAIN enqueued :
                (enqueued[i].type = "close" /\ i < j) => enqueued[j].src # "sync"
          /\ CloseSent =>
                /\ Transmitted[Len(Transmitted)].type = "close"
                /\ Transmitted = SubSeq(enqueued, 1, Len(Transmitted)))
    /\ [][syncErr => polls' = polls]_vars
    /\ syncErr ~> (CloseSent \/ writeErr \/ readErr # "none")

\* The close frame of a failed Sync is out, behind at least two data frames,
\* and neither a write nor a read has failed.
C9_Witness ==
    /\ syncErr
    /\ CloseSent
    /\ Len(Transmitted) >= 3
    /\ ~writeErr
    /\ readErr = "none"

\* C10: when ReadMessage has returned an error the reader starts no further
\* handleMessage, closes c.quit and returns.
C10_ReadFailureStopsReader ==
    /\ [][readErr # "none" =>
              /\ cmds' = cmds
              /\ readErr' = readErr
              /\ \A h \in Handlers :
                    handlers[h] = "unused" => handlers'[h] = "unused"]_vars
    /\ [](readErr # "none" => readerPc \in {"closeQuit", "closeWs", "done"})
    /\ [](readerPc \in {"closeWs", "done"} => quit)
    /\ (readErr # "none") ~> (quit /\ readerPc = "done")

\* The read timed out or the transport failed while a further message could still have been
\* received; the reader has returned and c.quit is closed.
C10_Witness ==
    /\ readErr = "other"
    /\ cmds < MaxCmds
    /\ readerPc = "done"
    /\ quit

\* C11: once c.quit is closed the websocket is eventually closed, whatever
\* had failed before; and the websocket is never closed while c.quit is
\* still open.
C11_TransportClosedAfterQuit ==
    /\ [](wsClosed => quit)
    /\ [][wsClosed' # wsClosed => (quit /\ readerPc = "closeWs")]_vars
    /\ quit ~> wsClosed

\* c.quit and the websocket are closed after a failed write and a failed
\* Sync, with the pump still blocked on the full channel.
C11_Witness ==
    /\ quit
    /\ wsClosed
    /\ writeErr
    /\ syncErr
    /\ pumpPc = "sendClose"

\* C13: the first data frame on the websocket is the body of the initial
\* sync, ahead of every sync body of the pump and every command response; it
\* is written once, as a text frame, by the writer, and nothing is written
\* before Start has run.
C13_InitialBodyFirst ==
    /\ wire # <<>> => wire[1] = frame("writer", message("text", "initial", 0, 0))
    /\ \A i \in DOMAIN wire : wire[i].src = "initial" => i = 1
    /\ servePc # "done" => (wire = <<>> /\ pingFrames = <<>>)
    /\ servePc \in {"start", "done"} =>
          enqueued # <<>> /\ enqueued[1] = message("text", "initial", 0, 0)

\* The initial body went out first, then a command response and a sync body.
C13_Witness ==
    /\ Len(wire) >= 3
    /\ wire[1].src = "initial"
    /\ \E i, j \in DOMAIN wire : wire[i].src = "cmd" /\ wire[j].src = "sync"

\* The upstream answer of the last Sync call is a response with a status
\* other than 200.
LastSyncRejected ==
    lastSync.n > 0 /\ lastSync.up.kind = "response" /\ lastSync.up.status # 200

\* The upstream answer of the last Sync call is a 200 response whose body is
\* a JSON object without next_batch.
LastSyncLacksNextBatch ==
    /\ lastSync.n > 0
    /\ lastSync.up.kind = "response"
    /\ lastSync.up.status = 200
    /\ lastSync.up.body \in {"{}", "{'errcode':'M_FORBIDDEN','error':'denied'}"}

\* The upstream answer of the last Sync call is a 200 response carrying a
\* next_batch.
LastSyncAnswered ==
    /\ lastSync.n > 0
    /\ lastSync.up.kind = "response"
    /\ lastSync.up.status = 200
    /\ lastSync.up.body \in {"{'next_batch':'s1'}", "{'next_batch':'s2'}"}

\* The sync bodies the pump has sent on c.send.
PumpBodies == SelectSeq(enqueued, LAMBDA m : m.type = "text" /\ m.src = "sync")

\* No goroutine of the connection runs and nothing was sent or written.
NothingStarted ==
    /\ readerPc = "idle" /\ writerPc = "idle" /\ pumpPc = "idle"
    /\ \A h \in Handlers : handlers[h] = "unused"
    /\ enqueued = <<>> /\ wire = <<>> /\ pingFrames = <<>>
    /\ polls = 0 /\ ~syncErr

\* C12: the goroutines run only after serveStream has upgraded, which it does
\* only after the initial Sync(false) returned a body; when that Sync fails
\* the HTTP error is written, nothing is upgraded or started, and that Sync
\* stays the last upstream call.
C12_StartOnlyAfterInitialSync ==
    /\ [](~NothingStarted =>
             /\ servePc \in {"start", "done"}
             /\ ~httpResponse.written)
    /\ [](servePc \notin {"sync", "httpError"} =>
             /\ lastSync.n > 0
             /\ ~httpResponse.written
             /\ (lastSync.n = 1 =>
                    /\ ~lastSync.wait
                    /\ LastSyncAnswered
                    /\ lastSync.err = nil))
    /\ []((lastSync.n = 1 /\ ~LastSyncAnswered) =>
             /\ servePc = "httpError"
             /\ httpResponse.written
             /\ NothingStarted)
    /\ [][httpResponse.written => UNCHANGED vars]_vars

\* The initial Sync was answered 200 without next_batch: the HTTP error is
\* written and nothing runs.
C12_Witness ==
    /\ lastSync.n = 1
    /\ LastSyncLacksNextBatch
    /\ servePc = "httpError"
    /\ httpResponse.written

\* C14: when the initial Sync is answered with a status other than 200, the
\* HTTP response carries that status, Content-Type and body unchanged; when
\* there is no upstream response it carries status 500.
C14_InitialSyncErrorRelayed ==
    /\ (lastSync.n = 1 /\ LastSyncRejected) =>
          /\ httpResponse.written
          /\ httpResponse.status = lastSync.up.status
          /\ httpResponse.contentType = lastSync.up.contentType
          /\ httpResponse.body = lastSync.up.body
    /\ (lastSync.n = 1 /\ lastSync.up.kind = "noResponse") =>
          /\ httpResponse.written
          /\ httpResponse.status = 500
    /\ httpResponse.written => (lastSync.n = 1 /\ lastSync.err # nil)

\* The initial Sync was answered 500 with a text/html body that is no JSON.
C14_Witness ==
    /\ lastSync.n = 1
    /\ LastSyncRejected
    /\ lastSync.up.contentType = "text/html"
    /\ lastSync.up.body = "<html>busy</html>"
    /\ httpResponse.written

\* C15: NextSyncBatch changes only in a Sync call answered 200 with a
\* next_batch, and to that next_batch; a Sync call answered in any other way
\* leaves it unchanged; and each Sync call sends the NextSyncBatch of the
\* time of the call as 'since', and no 'since' while it is "".
C15_CursorFollowsSuccessfulSync ==
    /\ [][NextSyncBatch' # NextSyncBatch =>
              /\ lastSync'.n = lastSync.n + 1
              /\ LastSyncAnswered'
              /\ lastSync'.err = nil
              /\ NextSyncBatch' = Unmarshal(lastSync'.up.body).next_batch]_vars
    /\ [][lastSync'.n # lastSync.n =>
              /\ lastSync'.n = lastSync.n + 1
              /\ IF LastSyncAnswered'
                    THEN NextSyncBatch' = Unmarshal(lastSync'.up.body).next_batch
                    ELSE /\ NextSyncBatch' = NextSyncBatch
                         /\ lastSync'.err # nil
              /\ IF NextSyncBatch = ""
                    THEN "since" \notin DOMAIN lastSync'.params
                    ELSE /\ "since" \in DOMAIN lastSync'.params
                         /\ lastSync'.params["since"] = NextSyncBatch]_vars

\* The initial Sync and the pump's first set the cursor, to s1 and then to
\* s2; the pump's next Sync sent s2 as 'since', failed, and left s2.
C15_Witness ==
    /\ lastSync.n = 3
    /\ lastSync.wait
    /\ lastSync.err # nil
    /\ "since" \in DOMAIN lastSync.params
    /\ lastSync.params["since"] = "s2"
    /\ NextSyncBatch = "s2"

\* C16: a Sync answered 200 with a body that has no next_batch returns an
\* error and no body, and leaves NextSyncBatch unchanged; in the pump no
\* sync body is sent for it, the pump goes on to send the close message and
\* return, and it is the last Sync call; the close message is eventually
\* sent unless a write fails or c.quit is closed.
C16_MissingNextBatchIsFailure ==
    /\ [](LastSyncLacksNextBatch =>
             /\ lastSync.err # nil
             /\ lastSync.body = ""
             /\ (lastSync.wait =>
                    /\ syncErr
                    /\ pumpPc \in {"sendClose", "done"}
                    /\ Len(PumpBodies) = polls
                    /\ (pumpPc = "done" <=> Len(CloseDirectives) = 1)))
    /\ [][(LastSyncLacksNextBatch' /\ lastSync'.n # lastSync.n) =>
              /\ NextSyncBatch' = NextSyncBatch
              /\ polls' = polls
              /\ enqueued' = enqueued]_vars
    /\ [][LastSyncLacksNextBatch =>
              /\ lastSync' = lastSync
              /\ NextSyncBatch' = NextSyncBatch
              /\ Len(PumpBodies') = Len(PumpBodies)]_vars
    /\ (LastSyncLacksNextBatch /\ lastSync.wait) ~>
          (Len(CloseDirectives) = 1 \/ writeErr \/ quit)

\* The pump's Sync was answered 200 with {}, after a Sync that had set the
\* cursor; the close message is on the websocket.
C16_Witness ==
    /\ LastSyncLacksNextBatch
    /\ lastSync.up.body = "{}"
    /\ lastSync.wait
    /\ polls >= 1
    /\ NextSyncBatch # ""
    /\ CloseSent

\* The last upstream call of the command in hand, when it made one.
LastCall == handling.calls[Len(handling.calls)]

\* The command in hand made an upstream call that was not answered 200.
UpstreamCallFailed ==
    /\ handling.h # 0
    /\ handling.calls # <<>>
    /\ ~(LastCall.up.kind = "response" /\ LastCall.up.status = 200)

\* The typing PUT of the command in hand was answered 429.
TypingRateLimited ==
    /\ handling.h # 0
    /\ handling.calls # <<>>
    /\ LastCall.endpoint = "typing"
    /\ LastCall.up.kind = "response"
    /\ LastCall.up.status = 429

\* The error object a failed upstream call is to be reported with: errcode
\* and error of a JSON error body, else M_UNKNOWN with the message.
ExpectedError(up) ==
    IF up.kind = "response" /\ up.contentType = "application/json"
          /\ up.body \in {"{'errcode':'M_FORBIDDEN','error':'denied'}",
                          "{'errcode':'M_LIMIT_EXCEEDED','error':'slow down'}"}
    THEN IF up.body = "{'errcode':'M_FORBIDDEN','error':'denied'}"
         THEN [ErrCode |-> "M_FORBIDDEN", Error |-> "denied"]
         ELSE [ErrCode |-> "M_LIMIT_EXCEEDED", Error |-> "slow down"]
    ELSE [ErrCode |-> "M_UNKNOWN",
          Error |-> IF up.kind = "response"
                       THEN up.body ELSE urlError.msg]

\* The responses to the message of handler h sent on c.send.
Responses(h) ==
    {i \in DOMAIN enqueued :
        enqueued[i] = message("text", "cmd", h, 0)}

\* C17: handling a command never ends the connection: whatever the request
\* and whatever upstream answers, no panic ends the process, and the step of
\* the handler neither closes c.quit or the websocket nor sends a close
\* message.
C17_CommandsNeverEndConnection ==
    /\ [](~aborted /\ (handling.h # 0 => ~handling.panic))
    /\ [][handling' # handling =>
              /\ UNCHANGED quitVars
              /\ wsClosed' = wsClosed
              /\ CloseDirectives' = CloseDirectives]_vars

\* C18: when the upstream call of a command is not answered 200, the
\* response carries the request's id, no result, and an error: errcode and
\* error of the upstream JSON error body, or else M_UNKNOWN with the
\* message of the failure (a typing PUT answered 429 apart, see C19).
C18_UpstreamFailureMapped ==
    (UpstreamCallFailed /\ ~TypingRateLimited) =>
        /\ ~handling.panic
        /\ handling.resp.id = handling.req.id
        /\ handling.resp.result = ""
        /\ handling.resp.error = <<ExpectedError(LastCall.up)>>

\* C19: a typing PUT answered 429 gives the success response with result {}
\* and no error, whether the 429 body is a JSON error or not, and no panic.
C19_TypingRateLimitIsSuccess ==
    TypingRateLimited =>
        /\ ~handling.panic
        /\ ~aborted
        /\ handling.resp.id = handling.req.id
        /\ handling.resp.result = "{}"
        /\ handling.resp.error = <<>>

\* C20: each message handed to handleMessage gets one response on c.send,
\* never two: handleRequest returns a response for it, with the id of the
\* request or nil for an undecodable message, and once the handler has
\* returned that response has been sent once.
C20_OneResponsePerMessage ==
    /\ \A h \in Handlers :
          /\ Cardinality(Responses(h)) <= 1
          /\ handlers[h] = "done" => Cardinality(Responses(h)) = 1
          /\ handlers[h] \in {"unused", "handle", "send"} => Responses(h) = {}
    /\ handling.h # 0 =>
          /\ ~handling.panic
          /\ handlers[handling.h] = "send"
          /\ handling.resp.id =
                IF handling.req.decodable THEN handling.req.id ELSE <<>>

\* A handleRequest call has returned its response and the response is not
\* yet sent.
Answered == handling.h # 0 /\ ~handling.panic

\* C21: every response handleRequest returns carries exactly one of result
\* and error, whatever the method and the outcome.
C21_ResultXorError ==
    Answered =>
        (handling.resp.result # "") # (handling.resp.error # <<>>)

\* Both kinds of response occur: this one has a result from upstream.
C21_Witness ==
    /\ Answered
    /\ handling.req.method = "send"
    /\ handling.resp.result = "{'event_id':'$e'}"
    /\ handling.resp.error = <<>>

\* C22: a message that does not decode as a request gets an error response
\* with a null id, no result and the code M_NOT_JSON, and no upstream call
\* is made for it.
C22_UndecodableIsNotJson ==
    (handling.h # 0 /\ ~handling.req.decodable) =>
        /\ ~handling.panic
        /\ handling.resp.id = <<>>
        /\ handling.resp.result = ""
        /\ Len(handling.resp.error) = 1
        /\ handling.resp.error[1].ErrCode = "M_NOT_JSON"
        /\ handling.calls = <<>>

\* An undecodable message has been answered.
C22_Witness ==
    /\ Answered
    /\ ~handling.req.decodable
    /\ handling.resp.error # <<>>

\* The request is a command that lacks a member its method requires.
LacksRequired(req) ==
    /\ req.decodable
    /\ CASE req.method = "send" ->
                \/ req.id = <<>>
                \/ /\ req.params.ok
                   /\ \/ req.params.Room_ID = ""
                      \/ req.params.Event_Type = ""
                      \/ ~req.params.Content
         [] req.method = "state" ->
                /\ req.params.ok
                /\ \/ req.params.Room_ID = ""
                   \/ req.params.Event_Type = ""
                   \/ ~req.params.Content
         [] req.method = "typing" ->
                req.params.ok /\ req.params.Room_ID = ""
         [] req.method = "read_markers" ->
                /\ req.params.ok
                /\ \/ req.params.Room_ID = ""
                   \/ req.params.Read = "" /\ req.params.FullyRead = ""
         [] OTHER -> FALSE

\* C23: a decodable command that lacks a required member (send: id,
\* room_id, event_type or content; state: room_id, event_type or content;
\* typing: room_id; read_markers: room_id, or both of m.read and
\* m.fully_read) gets an error response with the code M_BAD_JSON and the id
\* of the request, and no upstream call is made for it.
C23_MissingFieldIsBadJson ==
    (handling.h # 0 /\ LacksRequired(handling.req)) =>
        /\ ~handling.panic
        /\ handling.resp.id = handling.req.id
        /\ handling.resp.result = ""
        /\ Len(handling.resp.error) = 1
        /\ handling.resp.error[1].ErrCode = "M_BAD_JSON"
        /\ handling.calls = <<>>

\* A state command without content has been answered.
C23_Witness ==
    /\ Answered
    /\ handling.req.method = "state"
    /\ handling.req.params.Room_ID # ""
    /\ handling.req.params.Event_Type # ""
    /\ ~handling.req.params.Content
    /\ handling.resp.error # <<>>

\* The methods of handlerMap.
KnownMethods == {"ping", "read_markers", "send", "state", "typing"}

\* C24: a decodable request whose method is not in handlerMap gets an error
\* response with the id of the request and no result, whose code is one of
\* its own for an unknown method, not a code of malformed input (M_BAD_JSON,
\* M_NOT_JSON); and no upstream call is made for it.
C24_UnknownMethodHasOwnCode ==
    (handling.h # 0 /\ handling.req.decodable
        /\ handling.req.method \notin KnownMethods) =>
        /\ ~handling.panic
        /\ handling.resp.id = handling.req.id
        /\ handling.resp.result = ""
        /\ Len(handling.resp.error) = 1
        /\ handling.resp.error[1].ErrCode \notin {"M_BAD_JSON", "M_NOT_JSON"}
        /\ handling.calls = <<>>

\* C25: a ping gets a response with its id, the result {} and no error;
\* no upstream call is made for it, and handling it changes neither
\* NextSyncBatch nor the cached UserId.
C25_PingIsLocal ==
    /\ []((handling.h # 0 /\ handling.req.decodable
              /\ handling.req.method = "ping") =>
            /\ ~handling.panic
            /\ handling.resp.id = handling.req.id
            /\ handling.resp.result = "{}"
            /\ handling.resp.error = <<>>
            /\ handling.calls = <<>>)
    /\ [][(handling'.h # 0 /\ handling' # handling
              /\ handling'.req.decodable /\ handling'.req.method = "ping") =>
            /\ UserId' = UserId
            /\ NextSyncBatch' = NextSyncBatch]_vars

\* A ping has been answered on a connection that has a cached UserId.
C25_Witness ==
    /\ Answered
    /\ handling.req.method = "ping"
    /\ handling.req.id = <<"1">>
    /\ UserId = "@u:hs"

\* The request in hand is a send or state command with all its members.
ValidEvent(method) ==
    /\ handling.h # 0
    /\ handling.req.decodable
    /\ handling.req.method = method
    /\ handling.req.params.ok
    /\ ~LacksRequired(handling.req)

\* The command in hand made one upstream call, a PUT of the client's
\* content to the given path, and when that was answered 200 with an event
\* id the response carries the id of the request and that event id.
ForwardedTo(path) ==
    /\ ~handling.panic
    /\ Len(handling.calls) = 1
    /\ handling.calls[1].method = "PUT"
    /\ handling.calls[1].path = path
    /\ handling.calls[1].body = <<[body |-> "hi"]>>
    /\ \A e \in {"$e", "$f"} :
          handling.calls[1].up =
              response(200, "application/json",
                       "{'event_id':'" \o e \o "'}") =>
              /\ handling.resp.id = handling.req.id
              /\ handling.resp.result = "{'event_id':'" \o e \o "'}"
              /\ handling.resp.error = <<>>

\* C26: a valid send command makes exactly one upstream call, a PUT to the
\* send sub-resource of the room with the id of the request as transaction
\* id, and its response carries that id and the event id upstream returned;
\* a valid state command likewise, to the state sub-resource with its
\* state_key (which may be empty), with or without an id.
C26_SendAndStateForwarded ==
    /\ ValidEvent("send") =>
          ForwardedTo("_matrix/client/r0/rooms/%21r/send/m.t/"
                          \o handling.req.id[1])
    /\ ValidEvent("state") =>
          ForwardedTo("_matrix/client/r0/rooms/%21r/state/m.t/"
                          \o handling.req.params.State_Key)

\* A send with the second id has been answered with the second event id.
C26_Witness ==
    /\ Answered
    /\ ValidEvent("send")
    /\ handling.req.id = <<"2">>
    /\ handling.resp.result = "{'event_id':'$f'}"

\* A state command without an id and with an empty state_key has been
\* answered with an event id.
C26_WitnessState ==
    /\ Answered
    /\ ValidEvent("state")
    /\ handling.req.id = <<>>
    /\ handling.req.params.State_Key = ""
    /\ handling.resp.result = "{'event_id':'$e'}"

\* The bodies of the typing PUTs made for the command in hand.
TypingBodies ==
    {handling.calls[i].body[1] :
        i \in {j \in DOMAIN handling.calls :
                  handling.calls[j].endpoint = "typing"}}

\* C27: the body a typing command sends upstream carries a timeout only
\* when the command's typing flag is true and its timeout is not zero, and
\* then it is the command's timeout; with typing false, or a timeout of zero
\* or none, the body carries no timeout.
C27_TimeoutOnlyWhenTyping ==
    handling.h # 0 =>
        \A b \in TypingBodies :
            /\ b.typing = handling.req.params.Typing
            /\ ("timeout" \in DOMAIN b) <=>
                  (handling.req.params.Typing
                      /\ handling.req.params.Timeout # 0)
            /\ ("timeout" \in DOMAIN b) =>
                  b.timeout = handling.req.params.Timeout

\* A typing command with typing false and a timeout has been forwarded.
C27_Witness ==
    /\ Answered
    /\ handling.req.method = "typing"
    /\ ~handling.req.params.Typing
    /\ handling.req.params.Timeout # 0
    /\ TypingBodies # {}

\* A typing command with typing true and a timeout has been forwarded.
C27_WitnessForwarded ==
    /\ Answered
    /\ \E b \in TypingBodies : "timeout" \in DOMAIN b

\* C28: no line written to the log holds the access token: every URL
\* printed, that of the request to /stream, that of an upstream request and
\* that in the text of a logged error, carries the marker instead, so that
\* the log is the same whichever token the client uses.
C28_NoTokenInLog ==
    \A line \in logged :
        \A i \in DOMAIN line.urls :
            line.urls[i].access_token \notin AccessTokens

\* The bodies of the model that decode as a JSON object, and the one that
\* is a Matrix error.
JsonObjects ==
    {"{}", "{'event_id':'$e'}", "{'errcode':'M_FORBIDDEN','error':'denied'}"}
StructuredError == "{'errcode':'M_FORBIDDEN','error':'denied'}"

\* The four outcomes of a call, and the fifth the code has.
RawBody(c) == c.err.type = "nil" /\ c.body = c.up.body
ServiceError(c, errcode, error) ==
    /\ c.body = ""
    /\ c.err.type = "MatrixError"
    /\ c.err.StatusCode = c.up.status
    /\ c.err.ContentType = c.up.contentType
    /\ c.err.Body = c.up.body
    /\ c.err.Details = [ErrCode |-> errcode, Error |-> error]
OpaqueError(c) ==
    /\ c.body = ""
    /\ c.err.type = "HttpError"
    /\ c.err.StatusCode = c.up.status
    /\ c.err.ContentType = c.up.contentType
    /\ c.err.Body = c.up.body
ConnectivityError(c) == c.body = "" /\ c.err.type = "url.Error"
ReadError(c) == c.body = "" /\ c.err.type = "error"

PollErrorText ==
    IF lastSync.up.kind = "noResponse"
    THEN "dial tcp 127.0.0.1:8008: connect: connection refused"
    ELSE lastSync.err.msg

\* C30: the close reason the sync pump builds from the error of a poll is
\* the error's text when that has at most 100 characters, else its first
\* 100 characters and "..."; for a *url.Error the text is that of its inner
\* error; so the reason has at most 103 characters and, with the 2 bytes of
\* the close code, fits the 125 bytes of a control frame.
C30_CloseReasonFits ==
    syncErr =>
        /\ Len(PollErrorText) <= 100 => errmsg = PollErrorText
        /\ Len(PollErrorText) > 100 =>
              /\ SubSeq(errmsg, 1, 100) = SubSeq(PollErrorText, 1, 100)
              /\ SubSeq(errmsg, 101, Len(errmsg)) = "..."
        /\ Len(errmsg) <= 103
        /\ 2 + Len(errmsg) <= maxControlFramePayloadSize

\* A poll has failed with an error text of 101 characters and the reason
\* has been trimmed.
C30_Witness ==
    /\ syncErr
    /\ Len(lastSync.err.msg) = 101
    /\ Len(errmsg) = 103
    /\ CloseSent

\* C31: the sync pump looks at c.quit once per iteration, before the call to
\* Sync: it enters the call only from that check, with c.quit open; it leaves
\* the call only when the call returns, whatever happens to c.quit; and once
\* c.quit is closed and the pump is not in the call, it never enters the call
\* again. So at most one call can begin after c.quit was closed: the one of
\* the iteration whose check came before the close.
C31_OnePollAfterQuit ==
    [][/\ (pumpPc # "sync" /\ pumpPc' = "sync") =>
             (pumpPc = "check" /\ ~quit)
       /\ (pumpPc = "sync" /\ pumpPc' # "sync") =>
             /\ pumpPc' \in {"sendMessage", "sendClose"}
             /\ polls' # polls \/ (syncErr' /\ ~syncErr)
       /\ (polls' # polls \/ syncErr' # syncErr) => pumpPc = "sync"
       /\ (quit /\ pumpPc # "sync") => pumpPc' # "sync"]_vars

\* c.quit was closed after the pump's check: the pump is in its call to Sync
\* with c.quit closed.
C31_Witness ==
    /\ quit
    /\ pumpPc = "sync"
    /\ readerPc = "done"

\* C32: Sync is only ever called by one flow at a time: by serveStream
\* before any goroutine of the connection exists, and afterwards by the sync
\* pump alone. NextSyncBatch and the record of the last call change only in
\* the step in which one of these two calls returns; the steps of the
\* reader and of the writer leave them alone.
C32_OnePollerAtATime ==
    /\ [](/\ ~(servePc = "sync" /\ pumpPc # "idle")
          /\ (pumpPc # "idle") =>
                (servePc = "done" /\ lastSync.n >= 1 /\ polls < lastSync.n))
    /\ [][(NextSyncBatch' # NextSyncBatch \/ lastSync' # lastSync) =>
             /\ lastSync'.n = lastSync.n + 1
             /\ readerPc' = readerPc
             /\ writerPc' = writerPc
             /\ \/ /\ servePc = "sync" /\ servePc' # "sync"
                   /\ pumpPc = "idle" /\ pumpPc' = "idle"
                   /\ lastSync.n = 0
                   /\ ~lastSync'.wait
                \/ /\ pumpPc = "sync" /\ pumpPc' # "sync"
                   /\ servePc = "done" /\ servePc' = "done"
                   /\ lastSync'.wait]_vars

\* The pump's Sync has moved the cursor on from the one the initial Sync
\* set, while the writer and the reader are running.
C32_Witness ==
    /\ lastSync.n = 2
    /\ lastSync.wait
    /\ NextSyncBatch = "s2"
    /\ readerPc = "read"
    /\ writerPc = "select"

\* The handlers make no call to /sync and leave the cursor as it is.
C32_HandlersLeaveCursor ==
    /\ [](handling.h # 0 =>
             \A i \in DOMAIN handling.calls :
                handling.calls[i].path # "_matrix/client/r0/sync")
    /\ [][(handling' # handling \/ handlers' # handlers) =>
             (NextSyncBatch' = NextSyncBatch /\ lastSync' = lastSync)]_vars

\* C33: the first call of Sync, serveStream's, sends timeout=0, and every
\* later call, all of them the pump's, sends timeout=60000; after a call
\* that waits for events no call is made that does not.
C33_ImmediateThenLongPoll ==
    /\ [](lastSync.n >= 1 =>
             /\ lastSync.wait <=> lastSync.n > 1
             /\ lastSync.params["timeout"] =
                   (IF lastSync.n = 1 THEN 0 ELSE syncTimeout)
             /\ syncTimeout = 60000)
    /\ [][(lastSync.n >= 1 /\ lastSync.wait) => lastSync'.wait]_vars
    /\ [][(pumpPc = "sync" /\ pumpPc' # "sync") =>
             lastSync'.params["timeout"] = 60000]_vars

\* The pump has made two calls after the initial one, both with the
\* long-poll timeout.
C33_Witness ==
    /\ lastSync.n = 3
    /\ lastSync.params["timeout"] = 60000
    /\ pumpPc \in {"sendMessage", "sendClose"}

\* C34: c.send never holds more than its capacity, and holds exactly the
\* messages sent on it that the writer has not received yet, in the order
\* they were sent; a flow at a send on the full channel stays there, and
\* nothing is sent, until the writer has received a message; the channel
\* changes only by one message added at the back or the front one received
\* by the writer.
C34_QueueBoundedAndLossless ==
    /\ [](/\ Len(send) <= QueueCap
          /\ dequeued + Len(send) = Len(enqueued)
          /\ send = SubSeq(enqueued, dequeued + 1, Len(enqueued)))
    /\ [][/\ Len(send) = QueueCap =>
                /\ enqueued' = enqueued
                /\ servePc = "send" => servePc' = "send"
                /\ pumpPc \in {"sendMessage", "sendClose"} =>
                      pumpPc' = pumpPc
                /\ \A h \in Handlers :
                      handlers[h] = "send" => handlers'[h] = "send"
          /\ send' # send =>
                \/ /\ Len(send) < QueueCap
                   /\ send' = Append(send, enqueued'[Len(enqueued')])
                   /\ Len(enqueued') = Len(enqueued) + 1
                   /\ dequeued' = dequeued
                \/ /\ writerPc = "select"
                   /\ send' = Tail(send)
                   /\ dequeued' = dequeued + 1
                   /\ enqueued' = enqueued]_vars

\* The channel is full after the writer has received a message, and the
\* pump is at a send on it.
C34_Witness ==
    /\ Len(send) = QueueCap
    /\ dequeued >= 1
    /\ pumpPc = "sendMessage"

\* A handler is in its upstream call, or at its send on the full channel.
HandlerBlocked(h) ==
    \/ handlers[h] = "handle"
    \/ handlers[h] = "send" /\ Len(send) = QueueCap

\* C35: each message read starts a handler of its own and leaves the reader
\* at its read and the other handlers where they are; whatever the handlers
\* are doing, the reader at its read can take the next message and can take
\* a read error, and after a read error it can close c.quit and then the
\* websocket.
C35_ReaderNeverWaits ==
    /\ [](/\ readerPc = "read" =>
                /\ ENABLED Conn(ReaderFail)
                /\ cmds < MaxCmds => ENABLED Conn(ReaderRead)
          /\ readerPc = "closeQuit" => ENABLED Conn(ReaderCloseQuit)
          /\ readerPc = "closeWs" => ENABLED Conn(ReaderCloseWs))
    /\ [][cmds' # cmds =>
             /\ readerPc = "read" /\ readerPc' = "read"
             /\ cmds' = cmds + 1
             /\ handlers[cmds'] = "unused"
             /\ handlers' = [handlers EXCEPT ![cmds'] = "handle"]]_vars

\* The reader is at its read after handing over two messages: the first
\* handler is at its send on the full channel, the second in its upstream
\* call.
C35_Witness ==
    /\ readerPc = "read"
    /\ handlers[1] = "send"
    /\ Len(send) = QueueCap
    /\ handlers[2] = "handle"
    /\ HandlerBlocked(1) /\ HandlerBlocked(2)

\* The reader has closed c.quit while a handler is at its send on the full
\* channel.
C35_WitnessShutdown ==
    /\ quit
    /\ \E h \in Handlers : handlers[h] = "send" /\ Len(send) = QueueCap

\* C36: a whoami request is sent only while no user id is cached, and
\* s.UserId is assigned at most once on a connection, also when the typing
\* commands are handled by concurrent handlers.
C36_IdentityCachedOnce ==
    /\ [](userIdStores <= 1)
    /\ [][\A h \in Handlers :
             (handlers[h] = "request" /\ handlers'[h] = "whoami") =>
                UserId = ""]_vars

\* The state of the connection: 0 while serveStream is setting it up (or
\* has given up), 1 while the goroutines run with c.quit open, 2 once c.quit
\* is closed, 3 once the websocket is closed.
Phase ==
    IF wsClosed THEN 3
    ELSE IF quit THEN 2
    ELSE IF servePc = "done" THEN 1
    ELSE 0

\* The positions of the reader, the writer and the sync pump.
FlowPcs == <<readerPc, writerPc, pumpPc>>

\* C37: the connection goes from setting-up to streaming to draining to
\* closed, one state at a time and never back; the goroutines exist only
\* from streaming on, c.quit is closed only while streaming and the
\* websocket only while draining; once c.quit is closed no goroutine and no
\* handler is started and none that has returned runs again; a closed
\* websocket and a closed c.quit stay closed.
C37_PhasesInOrder ==
    /\ [](/\ wsClosed => quit
          /\ quit => servePc = "done"
          /\ (servePc # "done") =>
                \A i \in 1..3 : FlowPcs[i] = "idle"
          /\ (servePc = "done") =>
                \A i \in 1..3 : FlowPcs[i] # "idle")
    /\ [][/\ Phase' \in {Phase, Phase + 1}
          /\ Phase = 3 => Phase' = 3
          /\ wsClosed => wsClosed'
          /\ quit => quit'
          /\ \A i \in 1..3 :
                /\ (FlowPcs[i] = "idle" /\ FlowPcs'[i] # "idle") =>
                      (servePc = "start" /\ Phase = 0 /\ Phase' = 1)
                /\ FlowPcs[i] = "done" => FlowPcs'[i] = "done"
                /\ FlowPcs'[i] = "idle" => FlowPcs[i] = "idle"
          /\ quit => \A h \in Handlers :
                         handlers[h] = "unused" => handlers'[h] = "unused"
          /\ servePc = "done" => servePc' = "done"]_vars

\* The connection is closed: c.quit and the websocket are closed and the
\* three goroutines have returned.
C37_Witness ==
    /\ Phase = 3
    /\ \A i \in 1..3 : FlowPcs[i] = "done"
    /\ polls >= 1
    /\ cmds >= 1

\* The command responses sent on c.send, and those on the websocket, in
\* order.
ResponsesSent == SelectSeq(enqueued, LAMBDA m : m.src = "cmd")
ResponsesOnWire == SelectSeq(wire, LAMBDA f : f.src = "cmd")

\* C40: the command responses come in the order in which the handlers sent
\* them, which need not be the order in which the reader read the
\* messages; each response is the response to one message read, told by
\* what it carries and not by its place: no two responses answer the same
\* message, and the responses on the websocket are the first of those sent,
\* in that order.
C40_ResponsesMatchedById ==
    /\ \A i \in DOMAIN ResponsesSent :
          /\ ResponsesSent[i].n \in 1..cmds
          /\ handlers[ResponsesSent[i].n] = "done"
          /\ \A j \in DOMAIN ResponsesSent :
                i # j => ResponsesSent[i].n # ResponsesSent[j].n
    /\ Len(ResponsesOnWire) <= Len(ResponsesSent)
    /\ \A i \in DOMAIN ResponsesOnWire :
          ResponsesOnWire[i].n = ResponsesSent[i].n

\* The response to the second message read is on the websocket before the
\* response to the first.
C40_Witness ==
    /\ Len(ResponsesOnWire) = 2
    /\ ResponsesOnWire[1].n = 2
    /\ ResponsesOnWire[2].n = 1

\* The pings that were answered late: the pong came pongWait - pingPeriod
\* seconds after the ping or later.
LatePongs ==
    {i \in DOMAIN pongs : pongs[i].at - pongs[i].ping >= pongWait - pingPeriod}

\* The ticks the ticker has delivered.
TicksFired == (tickAt \div pingPeriod) - 1

\* C38 as stated: the ping period is 54 s and the read deadline 60 s, and
\* a peer that answers every ping is never timed out by the reader.
C38_AnsweringPeerNeverTimedOut ==
    /\ pingPeriod = 54
    /\ pongWait = 60
    /\ readErr = "none"

\* C38, amended: the ping period (54 s) is shorter than the read deadline
\* (60 s); a running writer has written a ping for every tick delivered;
\* the read deadline is set only at the start and by a pong, to 60 s from
\* that moment; and the reader is timed out only when the writer has
\* stopped on a write error or a pong came 6 s or more after its ping.
C38_PromptPeerNeverTimedOut ==
    /\ [](/\ pingPeriod = 54 /\ pongWait = 60 /\ pingPeriod < pongWait
          /\ (servePc = "done" /\ writerPc = "select") =>
                pings + (IF tick THEN 1 ELSE 0) = TicksFired
          /\ readErr # "none" => (writeErr \/ LatePongs # {}))
    /\ [][/\ readDeadline' # readDeadline => readDeadline' = now + pongWait
          /\ (\E i \in DOMAIN pongs : pongs'[i].got /\ ~pongs[i].got) =>
                readDeadline' = now + pongWait]_vars

\* Two pings were written on their ticks and answered within 5 s; the
\* reader is still reading after 115 s.
C38_Witness ==
    /\ Len(pongs) = 2
    /\ \A i \in DOMAIN pongs : pongs[i].got /\ pongs[i].at - pongs[i].ping = 5
    /\ now >= 115
    /\ readerPc = "read"
    /\ readErr = "none"

\* Every ping has been answered, the first 7 s after it was written, and
\* the reader has been timed out.
C38_WitnessLate ==
    /\ readErr # "none"
    /\ ~writeErr
    /\ Len(pongs) = 1
    /\ pongs[1].at - pongs[1].ping = 7

\* The flows of MatrixConnection that are in doClose.
InDoClose ==
    {f \in {"reader", "writer", "pump"} :
        CASE f = "reader" -> readerPc = "doClose"
          [] f = "writer" -> writerPc \in {"doClose", "doClose2"}
          [] OTHER -> pumpPc = "doClose"}

\* C39: in MatrixConnection, c.quit is closed at most once and the
\* websocket is closed only after it; and no flow stays in doClose for
\* ever: none is at its send on the full closeChan once the closer, the
\* only receiver, has returned.
C39_ShutdownRequestNeverBlocks ==
    /\ quitCloses <= 1
    /\ wsClosed => quit
    /\ closerPc \in {"closeWs", "done"} <=> quit
    /\ ~(/\ InDoClose # {}
         /\ closeChan = goroutineCount
         /\ closerPc \in {"closeWs", "done"})

====
